---- MODULE Spec2Model ----
(***************************************************************************)
(* Food API (USDA proxy): the in-process TTL cache (CacheService), the     *)
(* upstream client (USDAService), the request boundary (validation,        *)
(* controller, error handler) as state machines.                           *)
(*                                                                         *)
(*   SpecCache : the cache alone, driven by set/get/delete/clear, the      *)
(*               periodic sweep, destroy and the passage of time.          *)
(*   Spec      : inbound requests travelling through validation, the       *)
(*               controller, the service, the cache and the upstream.      *)
(*                                                                         *)
(* JavaScript values are modelled as strings; null is the string Null.     *)
(* An optional numeric argument is a sequence: << >> when omitted, <<n>>   *)
(* when given.  Raw request text is a sequence of one-character strings.   *)
(***************************************************************************)
EXTENDS Integers, Sequences, FiniteSets, TLC

VARIABLES
    now,              \* Date.now(), in milliseconds
    ticks,            \* how many times the clock has been advanced (bounded)
    cache,            \* CacheService.cache: entries in Map insertion order
    cleanupInterval,  \* TRUE while the setInterval timer of the sweep is armed
    opLog,            \* SpecCache: the last two cache operations with their results
    req,              \* Spec: the inbound requests
    completed,        \* Spec: requests in the order their upstream call completed
    call,             \* SpecFunctions: the last call of a pure function, with its result
    instance,         \* SpecInstances: CacheService.instance, 0 while it is unset
    stores,           \* SpecInstances: the store of every CacheService constructed
    services          \* SpecInstances: this.cache of every USDAService constructed

vars == <<now, ticks, cache, cleanupInterval, opLog, req, completed,
          call, instance, stores, services>>

\* The variables of one specification at rest in the others.
NoCall == [fn |-> "none"]
FunctionsAtRest == call = NoCall
InstancesAtRest == instance = 0 /\ stores = << >> /\ services = << >>

(***************************************************************************)
(* Bounds of the model.                                                    *)
(***************************************************************************)
\* Capacity of the store. The program uses 1000 and evicts floor(1000 * 0.1);
\* the model keeps the formula and uses the smallest capacity for which the
\* eviction removes an entry.
maxSize == 10
\* How often the clock may advance in one behaviour.
MaxTicks == 2

Null == "null"

Min(a, b) == IF a < b THEN a ELSE b
Max(a, b) == IF a > b THEN a ELSE b

(***************************************************************************)
(* CacheService                                                            *)
(***************************************************************************)
defaultTTL == 5 * 60 * 1000
sweepPeriod == 60 * 1000

\* Index of the entry stored under key, 0 when the Map has none.
IndexOf(c, key) ==
    IF \E i \in 1..Len(c) : c[i].key = key
    THEN CHOOSE i \in 1..Len(c) : c[i].key = key
    ELSE 0

Has(c, key) == IndexOf(c, key) # 0

\* Map.delete(key): the entry leaves, the order of the others is kept.
MapDelete(c, key) == SelectSeq(c, LAMBDA e : e.key # key)

\* Mutant: a key already present keeps its entry (first write wins).
MapSetKeepFirst(c, entry) ==
    IF \E i \in 1..Len(c) : c[i].key = entry.key THEN c ELSE Append(c, entry)

\* Map.set(key, entry): an existing key keeps its position, a new key goes last.
MapSet(c, entry) ==
    IF Has(c, entry.key)
    THEN [c EXCEPT ![IndexOf(c, entry.key)] = entry]
    ELSE Append(c, entry)

\* now - entry.timestamp > entry.ttl
Expired(entry, t) == t - entry.timestamp > entry.ttl

\* Mutant: get without the lazy expiry check.
GetResultNoExpiry(c, key, t) ==
    IF ~Has(c, key) THEN Null ELSE c[IndexOf(c, key)].data

\* CacheService.get: the value returned.
GetResult(c, key, t) ==
    IF ~Has(c, key) THEN Null
    ELSE IF Expired(c[IndexOf(c, key)], t) THEN Null
    ELSE c[IndexOf(c, key)].data

\* CacheService.get: the store afterwards (lazy deletion of an expired entry).
GetStore(c, key, t) ==
    IF Has(c, key) /\ Expired(c[IndexOf(c, key)], t)
    THEN MapDelete(c, key)
    ELSE c

\* Math.floor(this.maxSize * 0.1)
entriesToRemove == (maxSize * 1) \div 10

\* Position of entry i after the stable sort by ascending timestamp.
SortRank(c, i) ==
    Cardinality({j \in 1..Len(c) :
        \/ c[j].timestamp < c[i].timestamp
        \/ (c[j].timestamp = c[i].timestamp /\ j < i)})

\* Mutant: the eviction removes nothing.
evictNothing(c) == c

\* Mutant: the eviction removes the first inserted entries, without sorting.
evictFirstInserted(c) ==
    SelectSeq(c, LAMBDA e : IndexOf(c, e.key) > entriesToRemove)

\* CacheService.evictOldest: delete the first entriesToRemove of the sorted entries.
evictOldest(c) ==
    LET doomed == {c[i].key : i \in {j \in 1..Len(c) : SortRank(c, j) < entriesToRemove}}
    IN  SelectSeq(c, LAMBDA e : e.key \notin doomed)

\* ttl || this.defaultTTL, for an optional number.
TtlOrDefault(ttl) == IF ttl # << >> /\ ttl[1] # 0 THEN ttl[1] ELSE defaultTTL

\* Mutant: a full store refuses the new entry instead of evicting.
CacheSetDropWhenFull(c, key, data, ttl, t) ==
    IF Len(c) >= maxSize THEN c
    ELSE MapSet(c, [key |-> key, data |-> data, timestamp |-> t,
                    ttl |-> TtlOrDefault(ttl)])

\* CacheService.set
CacheSet(c, key, data, ttl, t) ==
    LET room == IF Len(c) >= maxSize THEN evictOldest(c) ELSE c
    IN  MapSet(room, [key |-> key, data |-> data, timestamp |-> t,
                      ttl |-> TtlOrDefault(ttl)])

\* Mutant: the sweep removes nothing.
cleanupNothing(c, t) == c

\* Mutant: the sweep also removes the entries whose age equals their ttl.
cleanupAtBoundary(c, t) == SelectSeq(c, LAMBDA e : t - e.timestamp < e.ttl)

\* CacheService.cleanup: the periodic sweep.
cleanup(c, t) == SelectSeq(c, LAMBDA e : ~Expired(e, t))

(***************************************************************************)
(* SpecCache: the cache driven directly.                                   *)
(***************************************************************************)
FillKey(i) == "fill" \o ToString(i)

\* The store after n calls set(FillKey(i), "v0") made at time 0.
Prefill(n) ==
    [i \in 1..n |-> [key |-> FillKey(i), data |-> "v0", timestamp |-> 0,
                     ttl |-> defaultTTL]]

\* Stores the cache-level behaviours start from: empty as constructed, and
\* filled by earlier requests to capacity or to one entry below it.
InitialStores == {<< >>, Prefill(maxSize - 1), Prefill(maxSize)}

CacheKeys == {"a", FillKey(1)}
CacheValues == {"v1", "v2"}
TtlInputs == {<< >>, <<0>>, <<1>>}
TickSteps == {1, defaultTTL}

\* One record per cache operation: its arguments, the clock it read, the
\* size of the Map it met, the entry it found (get) and what it returned.
OpRecord(op, key, data, ttl, at, size, found, ets, ettl, result) ==
    [op |-> op, key |-> key, data |-> data, ttl |-> ttl, at |-> at, size |-> size,
     found |-> found, ets |-> ets, ettl |-> ettl, result |-> result]

PlainOp(op, key) ==
    OpRecord(op, key, Null, << >>, now, Len(cache), FALSE, 0, 0, Null)

InitCache ==
    /\ now = 0
    /\ ticks = 0
    /\ cache \in InitialStores
    /\ cleanupInterval = TRUE
    /\ opLog = << >>
    /\ req = << >>
    /\ completed = << >>
    /\ FunctionsAtRest
    /\ InstancesAtRest

\* cache.set(key, data, ttl)
Set(key, data, ttl) ==
    /\ cache' = CacheSet(cache, key, data, ttl, now)
    /\ opLog' = <<OpRecord("set", key, data, ttl, now, Len(cache), FALSE, 0, 0, Null)>>
    /\ UNCHANGED <<now, ticks, cleanupInterval, req, completed, call, instance, stores, services>>

\* cache.get(key); a get that directly follows a set keeps that set in the log.
Get(key) ==
    LET i == IndexOf(cache, key)
        rec == OpRecord("get", key, Null, << >>, now, Len(cache), i # 0,
                        IF i # 0 THEN cache[i].timestamp ELSE 0,
                        IF i # 0 THEN cache[i].ttl ELSE 0,
                        GetResult(cache, key, now))
    IN  /\ cache' = GetStore(cache, key, now)
        /\ opLog' = IF opLog # << >> /\ opLog[Len(opLog)].op = "set"
                    THEN <<opLog[Len(opLog)], rec>>
                    ELSE <<rec>>
        /\ UNCHANGED <<now, ticks, cleanupInterval, req, completed, call, instance, stores, services>>

\* cache.delete(key)
Delete(key) ==
    /\ cache' = MapDelete(cache, key)
    /\ opLog' = <<PlainOp("delete", key)>>
    /\ UNCHANGED <<now, ticks, cleanupInterval, req, completed, call, instance, stores, services>>

\* cache.clear()
Clear ==
    /\ cache' = << >>
    /\ opLog' = <<PlainOp("clear", Null)>>
    /\ UNCHANGED <<now, ticks, cleanupInterval, req, completed, call, instance, stores, services>>

\* The setInterval callback: runs only while the timer is armed.
Sweep ==
    /\ cleanupInterval
    /\ cache' = cleanup(cache, now)
    /\ opLog' = <<PlainOp("cleanup", Null)>>
    /\ UNCHANGED <<now, ticks, cleanupInterval, req, completed, call, instance, stores, services>>

\* cache.destroy()
Destroy ==
    /\ cleanupInterval' = FALSE
    /\ cache' = << >>
    /\ opLog' = <<PlainOp("destroy", Null)>>
    /\ UNCHANGED <<now, ticks, req, completed, call, instance, stores, services>>

\* Time passes.
Tick(d) ==
    /\ ticks < MaxTicks
    /\ now' = now + d
    /\ ticks' = ticks + 1
    /\ opLog' = <<PlainOp("tick", Null)>>
    /\ UNCHANGED <<cache, cleanupInterval, req, completed, call, instance, stores, services>>

NextCache ==
    \/ \E k \in CacheKeys, v \in CacheValues, ttl \in TtlInputs : Set(k, v, ttl)
    \/ \E k \in CacheKeys : Get(k)
    \/ \E k \in CacheKeys : Delete(k)
    \/ Clear
    \/ Sweep
    \/ Destroy
    \/ \E d \in TickSteps : Tick(d)

SpecCache == InitCache /\ [][NextCache]_vars

\* The cache under its timer: setInterval keeps calling cleanup every minute
\* for as long as the interval is armed, so a sweep that has work to do is
\* not postponed forever.
\* It starts from the store as the constructor leaves it.
InitConstructed == InitCache /\ cache = << >>

SpecCacheTimer == InitConstructed /\ [][NextCache]_vars /\ WF_vars(Sweep)

(***************************************************************************)
(* Text: raw request text is a sequence of one-character strings.          *)
(***************************************************************************)
UpperCase == <<"A","B","C","D","E","F","G","H","I","J","K","L","M",
               "N","O","P","Q","R","S","T","U","V","W","X","Y","Z">>
LowerCase == <<"a","b","c","d","e","f","g","h","i","j","k","l","m",
               "n","o","p","q","r","s","t","u","v","w","x","y","z">>
Digits == <<"0","1","2","3","4","5","6","7","8","9">>

Range(f) == {f[i] : i \in DOMAIN f}
PosIn(f, ch) == CHOOSE i \in DOMAIN f : f[i] = ch

\* \s of a JavaScript regular expression and of String.prototype.trim
IsSpace(ch) == ch \in {" ", "\t", "\n", "\r"}
IsDigit(ch) == ch \in Range(Digits)
DigitValue(ch) == PosIn(Digits, ch) - 1

\* UTF-16 code unit of the characters that occur in parameter names.
CharCode(ch) ==
    IF ch \in Range(UpperCase) THEN 64 + PosIn(UpperCase, ch)
    ELSE IF ch \in Range(LowerCase) THEN 96 + PosIn(LowerCase, ch)
    ELSE 47 + PosIn(Digits, ch)

\* The same, as a table over the characters of parameter names.
CodeUnit ==
    [ch \in Range(UpperCase) \cup Range(LowerCase) \cup Range(Digits) |-> CharCode(ch)]

RECURSIVE TrimStart(_)
TrimStart(s) ==
    IF s # << >> /\ IsSpace(Head(s)) THEN TrimStart(Tail(s)) ELSE s

RECURSIVE TrimEnd(_)
TrimEnd(s) ==
    IF s # << >> /\ IsSpace(s[Len(s)]) THEN TrimEnd(SubSeq(s, 1, Len(s) - 1)) ELSE s

\* String.prototype.trim
Trim(s) == TrimEnd(TrimStart(s))

\* String.prototype.substring(0, n)
Substring0(s, n) == SubSeq(s, 1, Min(Len(s), n))

\* The text as one string value.
RECURSIVE JoinChars(_)
JoinChars(s) ==
    IF s = << >> THEN ""
    ELSE IF Len(s) = 1 THEN s[1]
    ELSE LET half == Len(s) \div 2
         IN  JoinChars(SubSeq(s, 1, half)) \o JoinChars(SubSeq(s, half + 1, Len(s)))

\* The longest prefix of digits.
RECURSIVE DigitPrefix(_)
DigitPrefix(s) ==
    IF s # << >> /\ IsDigit(Head(s)) THEN <<Head(s)>> \o DigitPrefix(Tail(s)) ELSE << >>

RECURSIVE DecimalValue(_)
DecimalValue(ds) ==
    IF ds = << >> THEN 0
    ELSE 10 * DecimalValue(SubSeq(ds, 1, Len(ds) - 1)) + DigitValue(ds[Len(ds)])

\* parseInt(s, 10): leading white space skipped, an optional sign, then the
\* longest run of digits; << >> is NaN.
ParseInt(s) ==
    LET t == TrimStart(s)
        signed == t # << >> /\ Head(t) \in {"-", "+"}
        ds == DigitPrefix(IF signed THEN Tail(t) ELSE t)
    IN  IF ds = << >> THEN << >>
        ELSE IF signed /\ Head(t) = "-" THEN <<0 - DecimalValue(ds)>>
        ELSE <<DecimalValue(ds)>>

(***************************************************************************)
(* Boundary: sanitizeInput, validateFoodSearch, validateFdcId.             *)
(* A query parameter is << >> when absent and <<text>> when present.       *)
(***************************************************************************)
MaxTypeLength == 100

\* /^[a-zA-Z0-9\s\-.,&()]+$/
ValidFoodTypeChar(ch) ==
    \/ ch \in Range(UpperCase) \cup Range(LowerCase) \cup Range(Digits)
    \/ IsSpace(ch)
    \/ ch \in {"-", ".", ",", "&", "(", ")"}

\* sanitizeInput: a non-empty type is trimmed, loses < and >, and is cut.
sanitizeInput(type) ==
    IF type # << >> /\ type[1] # << >>
    THEN <<Substring0(SelectSeq(Trim(type[1]), LAMBDA ch : ch \notin {"<", ">"}),
                      MaxTypeLength)>>
    ELSE type

\* validateFoodSearch: TRUE when the errors list is not empty.
TypeInvalid(type) ==
    \/ type = << >>
    \/ type[1] = << >>
    \/ Trim(type[1]) = << >>
    \/ Len(type[1]) > MaxTypeLength
    \/ \E i \in 1..Len(type[1]) : ~ValidFoodTypeChar(type[1][i])

PageSizeInvalid(pageSize) ==
    /\ pageSize # << >>
    /\ LET n == ParseInt(pageSize[1])
       IN  n = << >> \/ n[1] < 1 \/ n[1] > 200

PageNumberInvalid(pageNumber) ==
    /\ pageNumber # << >>
    /\ LET n == ParseInt(pageNumber[1])
       IN  n = << >> \/ n[1] < 1

\* Mutant: validateFoodSearch without the checks of pageSize and pageNumber.
validateFoodSearchTypeOnly(type, pageSize, pageNumber) == TypeInvalid(type)

validateFoodSearchFails(type, pageSize, pageNumber) ==
    TypeInvalid(type) \/ PageSizeInvalid(pageSize) \/ PageNumberInvalid(pageNumber)

\* validateFdcId: TRUE when the errors list is not empty.
validateFdcIdFails(fdcId) ==
    \/ fdcId = << >>
    \/ LET id == ParseInt(fdcId)
       IN  id = << >> \/ id[1] <= 0

(***************************************************************************)
(* CacheService.generateKey                                                *)
(***************************************************************************)
\* Order of Array.prototype.sort without comparator: by UTF-16 code units.
RECURSIVE NameLess(_, _)
NameLess(a, b) ==
    IF b = << >> THEN FALSE
    ELSE IF a = << >> THEN TRUE
    ELSE IF CodeUnit[Head(a)] # CodeUnit[Head(b)]
         THEN CodeUnit[Head(a)] < CodeUnit[Head(b)]
    ELSE NameLess(Tail(a), Tail(b))

\* Mutant: the properties are joined in insertion order, without the sort.
SortedParamsAsInserted(params) == params

\* params: the object's own properties in insertion order, each
\* <<name, JSON.stringify(value)>> with the name as text.
SortedParams(params) ==
    LET rank(i) == Cardinality({j \in 1..Len(params) :
                                    NameLess(params[j][1], params[i][1])})
    IN  [k \in 1..Len(params) |->
            params[CHOOSE i \in 1..Len(params) : rank(i) = k - 1]]

RECURSIVE JoinParams(_)
JoinParams(ps) ==
    IF ps = << >> THEN ""
    ELSE JoinChars(ps[1][1]) \o "=" \o ps[1][2]
         \o (IF Len(ps) > 1 THEN "&" ELSE "") \o JoinParams(Tail(ps))

generateKey(prefix, params) == prefix \o ":" \o JoinParams(SortedParams(params))

\* JSON.stringify of a string without quotes or backslashes, and of a number.
JsonString(text) == "\"" \o JoinChars(text) \o "\""
JsonNumber(n) == ToString(n)

N_type == <<"t","y","p","e">>
N_pageSize == <<"p","a","g","e","S","i","z","e">>
N_pageNumber == <<"p","a","g","e","N","u","m","b","e","r">>
N_fdcId == <<"f","d","c","I","d">>

SearchKey(type, pageSize, pageNumber) ==
    generateKey("search", << <<N_type, JsonString(type)>>,
                             <<N_pageSize, JsonNumber(pageSize)>>,
                             <<N_pageNumber, JsonNumber(pageNumber)>> >>)
FoodKey(fdcId) == generateKey("food", << <<N_fdcId, JsonNumber(fdcId)>> >>)
NutritionKey(fdcId) == generateKey("nutrition", << <<N_fdcId, JsonNumber(fdcId)>> >>)

(***************************************************************************)
(* Error classes (types/errors) and the response envelope.                 *)
(***************************************************************************)
\* An envelope: HTTP status, success flag, error code, the class of the
\* error behind it, details.usdaStatusCode (0 when there is none), data.
Envelope(status, success, code, kind, usdaStatus, data) ==
    [status |-> status, success |-> success, code |-> code, kind |-> kind,
     usdaStatus |-> usdaStatus, data |-> data]

NoResponse == Envelope(0, FALSE, "", "", 0, Null)

\* USDAAPIError constructor: the switch over the upstream status.
USDAAPIErrorCode(statusCode) ==
    CASE statusCode = 400 -> "VALIDATION_ERROR"
      [] statusCode = 401 -> "API_KEY_INVALID"
      [] statusCode = 403 -> "FORBIDDEN"
      [] statusCode = 404 -> "FOOD_NOT_FOUND"
      [] statusCode = 429 -> "RATE_LIMIT_EXCEEDED"
      [] statusCode \in {500, 502, 503} -> "USDA_API_UNAVAILABLE"
      [] OTHER -> "USDA_API_ERROR"

USDAAPIErrorStatus(statusCode) ==
    CASE statusCode \in {400, 401, 403, 404, 429} -> statusCode
      [] statusCode \in {500, 502, 503} -> 503
      [] OTHER -> 502

\* A thrown error: its class and, for USDAAPIError, the upstream status.
Thrown(kind, statusCode) == [ok |-> FALSE, kind |-> kind, usda |-> statusCode, data |-> Null]
Returned(data) == [ok |-> TRUE, kind |-> "", usda |-> 0, data |-> data]

\* errorHandler on an AppError: appError.toAPIResponse() with appError.statusCode.
errorHandler(err) ==
    CASE err.kind = "ValidationError" ->
            Envelope(400, FALSE, "VALIDATION_ERROR", err.kind, 0, Null)
      [] err.kind = "FoodNotFoundError" ->
            Envelope(404, FALSE, "FOOD_NOT_FOUND", err.kind, 0, Null)
      [] err.kind = "NetworkError" ->
            Envelope(502, FALSE, "NETWORK_ERROR", err.kind, 0, Null)
      [] err.kind = "ParsingError" ->
            Envelope(422, FALSE, "PARSING_ERROR", err.kind, 0, Null)
      [] err.kind = "USDAAPIError" ->
            Envelope(USDAAPIErrorStatus(err.usda), FALSE, USDAAPIErrorCode(err.usda),
                     err.kind, err.usda, Null)
      [] OTHER ->
            Envelope(500, FALSE, "INTERNAL_SERVER_ERROR", "InternalServerError", 0, Null)

\* The validation middlewares answer themselves: res.status(400).json(...).
ValidationResponse == Envelope(400, FALSE, "VALIDATION_ERROR", "ValidationError", 0, Null)

(***************************************************************************)
(* Upstream (axios) and USDAService.                                       *)
(* An upstream outcome is [status, body]; status 0 is "no response"        *)
(* (connection refused, DNS failure, timeout), its body the error code.    *)
(***************************************************************************)
\* axios.create({ validateStatus: (status) => status < 500 })
validateStatus(status) == status < 500

\* !response.data || typeof response.data !== 'object'
NotAnObject(body) == body = "nonobject"

\* !response.data.foods || response.data.foods.length === 0
NoFoods(body) == body \notin {"foods:p1", "foods:p2"}

\* NutritionExtractor.extractNutritionData on a response with foods.
extractNutritionData(body) == "nutrition(" \o body \o ")"

\* NutritionExtractor.getDetailedNutrition: null when the extraction of the
\* record throws (its description is not a string), a summary otherwise.
getDetailedNutrition(body) ==
    IF body = "record:bad" THEN Null ELSE "summary(" \o body \o ")"

\* if (cached): the values the cache holds are objects, null is a miss.
\* Mutant: no cached value counts as a hit.
TruthyNever(v) == FALSE

Truthy(v) == v # Null

\* Mutant: searchFoodsRaw takes "no response" for an answer without a body.
searchFoodsRawNoResponseAsBody(up) ==
    IF up.status = 0 THEN Thrown("ParsingError", 0)
    ELSE IF up.status >= 500 THEN Thrown("USDAAPIError", up.status)
    ELSE IF up.body \notin {"foods:p1", "foods:p2"} THEN Thrown("FoodNotFoundError", 0)
    ELSE Returned(up.body)

\* searchFoodsRaw after the await.
searchFoodsRaw(up) ==
    IF up.status = 0 THEN Thrown("NetworkError", 0)
    ELSE IF ~validateStatus(up.status) THEN Thrown("USDAAPIError", up.status)
    ELSE IF NotAnObject(up.body) THEN Thrown("ParsingError", 0)
    ELSE IF NoFoods(up.body) THEN Thrown("FoodNotFoundError", 0)
    ELSE Returned(up.body)

\* searchFoodsWithNutrition after the await: extraction, and the catch that
\* re-throws three classes and wraps every other error.
searchFoodsWithNutrition(up) ==
    LET raw == searchFoodsRaw(up)
    IN  IF raw.ok THEN Returned(extractNutritionData(raw.data))
        ELSE IF raw.kind \in {"USDAAPIError", "NetworkError", "ParsingError"} THEN raw
        ELSE Thrown("ParsingError", 0)

\* getFoodDetails after the await.
getFoodDetails(up) ==
    IF up.status = 0 THEN Thrown("NetworkError", 0)
    ELSE IF ~validateStatus(up.status)
         THEN IF up.status = 404 THEN Thrown("FoodNotFoundError", 0)
              ELSE Thrown("USDAAPIError", up.status)
    ELSE IF NotAnObject(up.body) THEN Thrown("ParsingError", 0)
    ELSE Returned(up.body)

\* getFoodNutrition once getFoodDetails has settled with `details`.
getFoodNutrition(details) ==
    IF details.ok THEN Returned(getDetailedNutrition(details.data))
    ELSE IF details.kind \in {"USDAAPIError", "NetworkError", "ParsingError",
                              "FoodNotFoundError"} THEN details
    ELSE Thrown("ParsingError", 0)

searchTTL == 5 * 60 * 1000
detailTTL == 10 * 60 * 1000

(***************************************************************************)
(* FoodController: the envelope of a settled service call.                 *)
(***************************************************************************)
\* Mutant: getFoodNutrition of the controller without the test of !result.
ControllerResponseWithoutMissing(route, result) ==
    IF ~result.ok THEN errorHandler(result)
    ELSE Envelope(200, TRUE, "", "", 0, result.data)

ControllerResponse(route, result) ==
    IF ~result.ok THEN errorHandler(result)
    ELSE IF route = "nutrition" /\ ~Truthy(result.data)
         THEN Envelope(404, FALSE, "NUTRITION_DATA_MISSING", "", 0, Null)
    ELSE Envelope(200, TRUE, "", "", 0, result.data)

(***************************************************************************)
(* Spec: inbound requests.                                                 *)
(***************************************************************************)
\* Number of inbound requests in one behaviour.
MaxRequests == 2
Requests == 1..MaxRequests

\* Mutant: a network failure is retried once.
RetryOnNetworkError(result, calls) == result.kind = "NetworkError" /\ calls < 2

\* No catch block of the service re-issues the call: an error is re-thrown
\* or wrapped, whatever its class and however often the call was made.
RetryAfterFailure(result, calls) == FALSE

Absent == << >>
Text(t) == <<t>>

\* A type one character longer than validateFoodSearch allows.
OverLongType == [i \in 1..(MaxTypeLength + 1) |-> "a"]

\* Query strings of GET /foods.
SearchInputs ==
    { [type |-> Text(<<"a","p">>),         pageSize |-> Absent,               pageNumber |-> Absent],
      [type |-> Text(<<"<","a","p"," ">>), pageSize |-> Text(<<"2","5">>),    pageNumber |-> Text(<<"1">>)],
      [type |-> Absent,                    pageSize |-> Absent,               pageNumber |-> Absent],
      [type |-> Text(<< >>),               pageSize |-> Absent,               pageNumber |-> Absent],
      [type |-> Text(<<" ">>),             pageSize |-> Absent,               pageNumber |-> Absent],
      [type |-> Text(<<"a",";">>),         pageSize |-> Absent,               pageNumber |-> Absent],
      [type |-> Text(OverLongType),        pageSize |-> Absent,               pageNumber |-> Absent],
      [type |-> Text(<<"a","p">>),         pageSize |-> Text(<<"0">>),        pageNumber |-> Absent],
      [type |-> Text(<<"a","p">>),         pageSize |-> Text(<<"2","0","1">>), pageNumber |-> Absent],
      [type |-> Text(<<"a","p">>),         pageSize |-> Text(<<"x">>),        pageNumber |-> Absent],
      [type |-> Text(<<"a","p">>),         pageSize |-> Absent,               pageNumber |-> Text(<<"0">>)],
      [type |-> Text(<<"a","p">>),         pageSize |-> Absent,               pageNumber |-> Text(<<"-","1">>)],
      [type |-> Text(<<"a","p"," ",">">>), pageSize |-> Absent,               pageNumber |-> Absent] }

\* The :fdcId path segment of GET /foods/:fdcId and GET /foods/:fdcId/nutrition.
FdcIdInputs == { <<"7">>, <<"0">>, <<"x">> }

NoSearchInput == [type |-> Absent, pageSize |-> Absent, pageNumber |-> Absent]

\* What the upstream may answer to a search and to a lookup by identifier.
SearchOutcomes ==
    {[status |-> 200, body |-> b] : b \in {"foods:p1", "foods:p2", "foods:empty", "nonobject"}}
    \cup {[status |-> st, body |-> "errbody"] : st \in {401, 403, 429, 500, 504}}
    \cup {[status |-> 0, body |-> e] : e \in {"ECONNREFUSED", "ECONNABORTED"}}

DetailOutcomes ==
    {[status |-> 200, body |-> b] : b \in {"record:p1", "record:p2", "record:bad", "nonobject"}}
    \cup {[status |-> 404, body |-> b] : b \in {"errbody", "nonobject"}}
    \cup {[status |-> st, body |-> "errbody"] : st \in {401, 403, 429, 500, 504}}
    \cup {[status |-> 0, body |-> e] : e \in {"ECONNREFUSED", "ECONNABORTED"}}

NoOutcome == [status |-> -1, body |-> ""]

\* A request: where it stands, what it asked, the cache key of its route,
\* the identifier (0 for a search), how many upstream calls, cache reads and
\* cache writes it made, what the upstream answered, the envelope sent and
\* the clock it read when it wrote the cache (0 when it wrote nothing).
Request(pc, route, search, fdcIdText, key, fdcId, calls, reads, writes, up, resp, at) ==
    [pc |-> pc, route |-> route, search |-> search, fdcIdText |-> fdcIdText,
     key |-> key, fdcId |-> fdcId, calls |-> calls, reads |-> reads,
     writes |-> writes, up |-> up, resp |-> resp, at |-> at]

Idle == Request("idle", "", NoSearchInput, << >>, "", 0, 0, 0, 0, NoOutcome, NoResponse, 0)

Init ==
    /\ now = 0
    /\ ticks = 0
    /\ cache = << >>
    /\ cleanupInterval = TRUE
    /\ opLog = << >>
    /\ req = [r \in Requests |-> Idle]
    /\ completed = << >>
    /\ FunctionsAtRest
    /\ InstancesAtRest

\* Requests are numbered in the order they arrive.
NextToArrive(r) ==
    /\ req[r].pc = "idle"
    /\ \A q \in DOMAIN req : q < r => req[q].pc # "idle"

\* searchFoodsRaw: !type || type.trim().length === 0 throws a plain Error,
\* which the catch of searchFoodsWithNutrition wraps in a ParsingError.
TypeMissing(type) == type = Absent \/ Trim(type[1]) = << >>

\* getFoodDetails: !fdcId || fdcId <= 0 throws a plain Error before the try.
FdcIdMissing(fdcId) == fdcId <= 0

\* pageSize ? parseInt(pageSize as string, 10) : 25   (<< >> is NaN)
ParamOrDefault(param, default) ==
    IF param # Absent /\ param[1] # << >> THEN ParseInt(param[1]) ELSE <<default>>

\* JSON.stringify of a number that may be NaN.
JsonNumberOrNaN(n) == IF n = << >> THEN "null" ELSE JsonNumber(n[1])

\* GET /foods: sanitizeInput, validateFoodSearch, FoodController.searchFoods
\* and USDAService.searchFoodsWithNutrition up to its await.
ReceiveSearch(r, q) ==
    /\ NextToArrive(r)
    /\ LET type == sanitizeInput(q.type)
           pageSize == ParamOrDefault(q.pageSize, 25)
           pageNumber == ParamOrDefault(q.pageNumber, 1)
           key == generateKey("search",
                      << <<N_type, IF type = Absent THEN "undefined" ELSE JsonString(type[1])>>,
                         <<N_pageSize, JsonNumberOrNaN(pageSize)>>,
                         <<N_pageNumber, JsonNumberOrNaN(pageNumber)>> >>)
           cached == GetResult(cache, key, now)
       IN  IF validateFoodSearchFails(type, q.pageSize, q.pageNumber)
           THEN /\ req' = [req EXCEPT ![r] =
                        Request("done", "search", q, << >>, "", 0, 0, 0, 0,
                                NoOutcome, ValidationResponse, 0)]
                /\ UNCHANGED cache
           ELSE /\ cache' = GetStore(cache, key, now)
                /\ req' = [req EXCEPT ![r] =
                        IF Truthy(cached)
                        THEN Request("done", "search", q, << >>, key, 0, 0, 1, 0,
                                     NoOutcome, ControllerResponse("search", Returned(cached)), 0)
                        ELSE IF TypeMissing(type)
                        THEN Request("done", "search", q, << >>, key, 0, 0, 1, 0,
                                     NoOutcome,
                                     ControllerResponse("search", Thrown("ParsingError", 0)), 0)
                        ELSE Request("awaiting", "search", q, << >>, key, 0, 1, 1, 0,
                                     NoOutcome, NoResponse, 0)]
    /\ UNCHANGED <<now, ticks, cleanupInterval, opLog, completed, call, instance, stores, services>>

\* GET /foods/:fdcId: validateFdcId, FoodController.getFoodDetails and
\* USDAService.getFoodDetails up to its await.
ReceiveDetails(r, text) ==
    /\ NextToArrive(r)
    /\ IF validateFdcIdFails(text)
       THEN /\ req' = [req EXCEPT ![r] =
                    Request("done", "details", NoSearchInput, text, "", 0, 0, 0, 0,
                            NoOutcome, ValidationResponse, 0)]
            /\ UNCHANGED cache
       ELSE LET fdcId == ParseInt(text)[1]
                key == FoodKey(fdcId)
                cached == GetResult(cache, key, now)
            IN  IF FdcIdMissing(fdcId)
                THEN /\ req' = [req EXCEPT ![r] =
                            Request("done", "details", NoSearchInput, text, "", fdcId, 0, 0, 0,
                                    NoOutcome,
                                    ControllerResponse("details", Thrown("Error", 0)), 0)]
                     /\ UNCHANGED cache
                ELSE
                /\ cache' = GetStore(cache, key, now)
                /\ req' = [req EXCEPT ![r] =
                        IF Truthy(cached)
                        THEN Request("done", "details", NoSearchInput, text, key, fdcId, 0, 1, 0,
                                     NoOutcome, ControllerResponse("details", Returned(cached)), 0)
                        ELSE Request("awaiting", "details", NoSearchInput, text, key, fdcId, 1, 1, 0,
                                     NoOutcome, NoResponse, 0)]
    /\ UNCHANGED <<now, ticks, cleanupInterval, opLog, completed, call, instance, stores, services>>

\* GET /foods/:fdcId/nutrition: validateFdcId, FoodController.getFoodNutrition,
\* USDAService.getFoodNutrition and the getFoodDetails it calls, up to the await.
ReceiveNutrition(r, text) ==
    /\ NextToArrive(r)
    /\ IF validateFdcIdFails(text)
       THEN /\ req' = [req EXCEPT ![r] =
                    Request("done", "nutrition", NoSearchInput, text, "", 0, 0, 0, 0,
                            NoOutcome, ValidationResponse, 0)]
            /\ UNCHANGED cache
       ELSE LET fdcId == ParseInt(text)[1]
                key == NutritionKey(fdcId)
                cached == GetResult(cache, key, now)
                c1 == GetStore(cache, key, now)
                details == GetResult(c1, FoodKey(fdcId), now)
                c2 == GetStore(c1, FoodKey(fdcId), now)
                result == getFoodNutrition(Returned(details))
                stored == result.ok /\ Truthy(result.data)
            IN  IF Truthy(cached)
                THEN /\ cache' = c1
                     /\ req' = [req EXCEPT ![r] =
                            Request("done", "nutrition", NoSearchInput, text, key, fdcId, 0, 1, 0,
                                    NoOutcome, ControllerResponse("nutrition", Returned(cached)), 0)]
                ELSE IF FdcIdMissing(fdcId)
                THEN /\ cache' = c1
                     /\ req' = [req EXCEPT ![r] =
                            Request("done", "nutrition", NoSearchInput, text, key, fdcId, 0, 1, 0,
                                    NoOutcome,
                                    ControllerResponse("nutrition", Thrown("ParsingError", 0)), 0)]
                ELSE IF Truthy(details)
                THEN /\ cache' = IF stored
                                 THEN CacheSet(c2, key, result.data, <<detailTTL>>, now)
                                 ELSE c2
                     /\ req' = [req EXCEPT ![r] =
                            Request("done", "nutrition", NoSearchInput, text, key, fdcId, 0, 2,
                                    IF stored THEN 1 ELSE 0,
                                    NoOutcome, ControllerResponse("nutrition", result),
                                    IF stored THEN now ELSE 0)]
                ELSE /\ cache' = c2
                     /\ req' = [req EXCEPT ![r] =
                            Request("awaiting", "nutrition", NoSearchInput, text, key, fdcId, 1, 2, 0,
                                    NoOutcome, NoResponse, 0)]
    /\ UNCHANGED <<now, ticks, cleanupInterval, opLog, completed, call, instance, stores, services>>

\* The upstream call of a search settles with `up`: the rest of
\* searchFoodsWithNutrition, then the controller or the error handler.
CompleteSearch(r, up) ==
    /\ req[r].pc = "awaiting"
    /\ req[r].route = "search"
    /\ LET result == searchFoodsWithNutrition(up)
       IN  IF ~result.ok /\ RetryAfterFailure(result, req[r].calls)
           THEN /\ req' = [req EXCEPT ![r].calls = @ + 1]
                /\ UNCHANGED <<cache, completed>>
           ELSE /\ cache' = IF result.ok
                            THEN CacheSet(cache, req[r].key, result.data, <<searchTTL>>, now)
                            ELSE cache
                /\ req' = [req EXCEPT ![r].pc = "done", ![r].up = up,
                                      ![r].writes = IF result.ok THEN 1 ELSE 0,
                                      ![r].resp = ControllerResponse("search", result),
                                      ![r].at = IF result.ok THEN now ELSE 0]
                /\ completed' = Append(completed, r)
    /\ UNCHANGED <<now, ticks, cleanupInterval, opLog, call, instance, stores, services>>

\* The upstream call of a lookup settles with `up`: the rest of getFoodDetails.
CompleteDetails(r, up) ==
    /\ req[r].pc = "awaiting"
    /\ req[r].route = "details"
    /\ LET result == getFoodDetails(up)
       IN  IF ~result.ok /\ RetryAfterFailure(result, req[r].calls)
           THEN /\ req' = [req EXCEPT ![r].calls = @ + 1]
                /\ UNCHANGED <<cache, completed>>
           ELSE /\ cache' = IF result.ok
                            THEN CacheSet(cache, req[r].key, result.data, <<detailTTL>>, now)
                            ELSE cache
                /\ req' = [req EXCEPT ![r].pc = "done", ![r].up = up,
                                      ![r].writes = IF result.ok THEN 1 ELSE 0,
                                      ![r].resp = ControllerResponse("details", result),
                                      ![r].at = IF result.ok THEN now ELSE 0]
                /\ completed' = Append(completed, r)
    /\ UNCHANGED <<now, ticks, cleanupInterval, opLog, call, instance, stores, services>>

\* The upstream call made on behalf of getFoodNutrition settles with `up`:
\* the rest of getFoodDetails, then the rest of getFoodNutrition.
CompleteNutrition(r, up) ==
    /\ req[r].pc = "awaiting"
    /\ req[r].route = "nutrition"
    /\ LET details == getFoodDetails(up)
           c1 == IF details.ok
                 THEN CacheSet(cache, FoodKey(req[r].fdcId), details.data, <<detailTTL>>, now)
                 ELSE cache
           result == getFoodNutrition(details)
           stored == result.ok /\ Truthy(result.data)
       IN  IF ~details.ok /\ RetryAfterFailure(details, req[r].calls)
           THEN /\ req' = [req EXCEPT ![r].calls = @ + 1]
                /\ UNCHANGED <<cache, completed>>
           ELSE /\ cache' = IF stored
                            THEN CacheSet(c1, req[r].key, result.data, <<detailTTL>>, now)
                            ELSE c1
                /\ req' = [req EXCEPT ![r].pc = "done", ![r].up = up,
                                      ![r].writes = (IF details.ok THEN 1 ELSE 0)
                                                    + (IF stored THEN 1 ELSE 0),
                                      ![r].resp = ControllerResponse("nutrition", result),
                                      ![r].at = IF details.ok THEN now ELSE 0]
                /\ completed' = Append(completed, r)
    /\ UNCHANGED <<now, ticks, cleanupInterval, opLog, call, instance, stores, services>>

\* The periodic sweep while requests are served.
SweepTimer ==
    /\ cleanupInterval
    /\ cache' = cleanup(cache, now)
    /\ UNCHANGED <<now, ticks, cleanupInterval, opLog, req, completed, call, instance, stores, services>>

\* One step reaches the boundary of the search TTL, the other passes it; two
\* steps do the same for the detail TTL.
ClockSteps == {searchTTL, searchTTL + 1}

\* Time passes between two tasks of the event loop.
Advance(d) ==
    /\ ticks < MaxTicks
    /\ now' = now + d
    /\ ticks' = ticks + 1
    /\ UNCHANGED <<cache, cleanupInterval, opLog, req, completed, call, instance, stores, services>>

Next ==
    \/ \E r \in Requests, q \in SearchInputs : ReceiveSearch(r, q)
    \/ \E r \in Requests, t \in FdcIdInputs : ReceiveDetails(r, t)
    \/ \E r \in Requests, t \in FdcIdInputs : ReceiveNutrition(r, t)
    \/ \E r \in Requests, up \in SearchOutcomes : CompleteSearch(r, up)
    \/ \E r \in Requests, up \in DetailOutcomes : CompleteDetails(r, up)
    \/ \E r \in Requests, up \in DetailOutcomes : CompleteNutrition(r, up)
    \/ SweepTimer
    \/ \E d \in ClockSteps : Advance(d)

Spec == Init /\ [][Next]_vars

(***************************************************************************)
(* SpecLookups: detail and nutrition requests for one identifier, against  *)
(* an upstream whose record names the moment it was fetched.               *)
(***************************************************************************)
MaxLookups == 3
Lookups == 1..MaxLookups

\* The identifier every lookup asks for.
SameId == <<"7">>

\* The record the upstream serves at time t.
RecordAt(t) == "record:" \o ToString(t)

\* The upstream either answers 200 with its record of the moment or fails.
LookupStatuses == {200, 500}
Answer(st, t) ==
    [status |-> st, body |-> IF st = 200 THEN RecordAt(t) ELSE "errbody"]

InitLookups ==
    /\ now = 0
    /\ ticks = 0
    /\ cache = << >>
    /\ cleanupInterval = TRUE
    /\ opLog = << >>
    /\ req = [r \in Lookups |-> Idle]
    /\ completed = << >>
    /\ FunctionsAtRest
    /\ InstancesAtRest

NextLookups ==
    \/ \E r \in Lookups : ReceiveDetails(r, SameId)
    \/ \E r \in Lookups : ReceiveNutrition(r, SameId)
    \/ \E r \in Lookups, st \in LookupStatuses : CompleteDetails(r, Answer(st, now))
    \/ \E r \in Lookups, st \in LookupStatuses : CompleteNutrition(r, Answer(st, now))
    \/ SweepTimer
    \/ \E d \in ClockSteps : Advance(d)

SpecLookups == InitLookups /\ [][NextLookups]_vars

(***************************************************************************)
(* Claims about the cache (checked under SpecCache).                       *)
(***************************************************************************)
LastOp == opLog[Len(opLog)]
IsGet == opLog # << >> /\ LastOp.op = "get"
\* The last operation is a get(k) and the one right before it was a set(k, ..).
IsSetThenGet ==
    /\ Len(opLog) = 2
    /\ opLog[1].op = "set"
    /\ opLog[2].op = "get"
    /\ opLog[1].key = opLog[2].key

\* C1: get(key) never returns the value of an entry with now - timestamp > ttl,
\* whatever set, get, delete, sweep and time did before; a non-null result
\* comes from an entry that is in the store and not expired.
C1_GetNeverReturnsExpired ==
    IsGet /\ LastOp.result # Null
        => LastOp.found /\ ~(LastOp.at - LastOp.ets > LastOp.ettl)

\* C1 witness: a get met an expired entry still in the store and reported it absent.
C1_Witness ==
    /\ IsGet
    /\ LastOp.found
    /\ LastOp.at - LastOp.ets > LastOp.ettl
    /\ LastOp.result = Null

\* C9 (as claimed): an entry stored with set(key, value, 0) is absent on the
\* very next get(key).
C9_ZeroTtlAbsentOnNextGet ==
    IsSetThenGet /\ opLog[1].ttl = <<0>> => opLog[2].result = Null

\* C10: set(k, v, ttl) with ttl > 0 followed immediately by get(k), no time
\* elapsed, returns v, from every prior store, a full one included.
C10_SetThenGetRoundTrip ==
    (/\ IsSetThenGet
     /\ opLog[1].ttl # << >>
     /\ opLog[1].ttl[1] > 0
     /\ opLog[1].at = opLog[2].at)
        => opLog[2].result = opLog[1].data

\* C10 witness: the round trip happened on a store that was at capacity and
\* did not hold the key, so the set had to evict first.
C10_Witness ==
    /\ IsSetThenGet
    /\ opLog[1].ttl = <<1>>
    /\ opLog[1].at = opLog[2].at
    /\ opLog[1].size >= maxSize
    /\ opLog[1].key = "a"
    /\ opLog[2].result = opLog[1].data

\* C12: whatever set, get, delete, clear and the sweep did, the store never
\* holds more entries than its maximum entry count.
C12_StoreNeverExceedsMaxSize == Len(cache) <= maxSize

\* C12 witness: a set of a new key met a store at its maximum; afterwards the
\* store holds the new key and is at its maximum again, not above it.
C12_Witness ==
    /\ Len(opLog) = 1
    /\ opLog[1].op = "set"
    /\ opLog[1].key = "a"
    /\ opLog[1].size = maxSize
    /\ Has(cache, "a")
    /\ Len(cache) = maxSize

\* The step is a set: the log ends with the record of a set.
SetStep == opLog' # << >> /\ opLog'[Len(opLog')].op = "set"

\* The entries of a store, as a set.
Entries(c) == {c[i] : i \in 1..Len(c)}

\* The entry a set(key, data, ttl) made at time t writes.
WrittenEntry(op, t) ==
    [key |-> op.key, data |-> op.data, timestamp |-> t, ttl |-> TtlOrDefault(op.ttl)]

\* C25: a set that meets a store at its maximum removes exactly
\* entriesToRemove entries before it inserts; they are the oldest by
\* timestamp (no survivor is older than an evicted entry), and the store
\* afterwards is the survivors with the new entry written over its key.
C25_EvictsTenthOldest ==
    [][(SetStep /\ Len(cache) >= maxSize)
          => \E E \in {S \in SUBSET (1..Len(cache)) : Cardinality(S) = entriesToRemove} :
                /\ \A i \in E, j \in (1..Len(cache)) \ E :
                       cache[i].timestamp <= cache[j].timestamp
                /\ Entries(cache')
                     = {e \in {cache[j] : j \in (1..Len(cache)) \ E} :
                            e.key # opLog'[Len(opLog')].key}
                       \cup {WrittenEntry(opLog'[Len(opLog')], now)}]_vars

\* C25 witness: a set met a full store whose first inserted entry was not the
\* oldest; that entry survived, an older one left.
C25_Witness ==
    /\ Len(opLog) = 1
    /\ opLog[1].op = "set"
    /\ opLog[1].size = maxSize
    /\ Len(cache) >= maxSize - entriesToRemove
    /\ cache[1].key # opLog[1].key
    /\ cache[1].timestamp > cache[2].timestamp

\* C26: a set that overwrites a key already in the store removes no other
\* entry, whatever the size of the store: every entry under another key is
\* still there, unchanged, after the set.
C26_OverwriteRemovesNoOther ==
    [][(SetStep /\ Has(cache, opLog'[Len(opLog')].key))
          => \A e \in Entries(cache) :
                e.key # opLog'[Len(opLog')].key => e \in Entries(cache')]_vars

\* The step is one run of the sweep, or a get.
SweepStep == opLog' # << >> /\ opLog'[Len(opLog')].op = "cleanup"
GetStep == opLog' # << >> /\ opLog'[Len(opLog')].op = "get"

\* C27: one run of the sweep removes every entry with now - timestamp > ttl
\* and nothing else, the others keeping key, value, timestamp, ttl and order;
\* a get removes at most the expired entry of its own key and leaves every
\* other entry as it was.
C27_SweepAndGetRemoveOnlyExpired ==
    [][/\ SweepStep
            => /\ cache' = SelectSeq(cache, LAMBDA e : e \in Entries(cache'))
               /\ \A e \in Entries(cache) :
                      e \in Entries(cache') <=> ~(now - e.timestamp > e.ttl)
       /\ GetStep
            => /\ cache' = SelectSeq(cache, LAMBDA e : e \in Entries(cache'))
               /\ \A e \in Entries(cache) :
                      e \notin Entries(cache')
                          => /\ e.key = opLog'[Len(opLog')].key
                             /\ now - e.timestamp > e.ttl]_vars

\* C27 witness: a run of the sweep met expired and live entries together; it
\* removed some entries and kept others.
C27_Witness ==
    /\ Len(opLog) = 1
    /\ opLog[1].op = "cleanup"
    /\ Len(cache) < opLog[1].size
    /\ cache # << >>
    /\ \E i \in 1..Len(cache) : now - cache[i].timestamp = cache[i].ttl

\* The store holds an expired entry under key k.
ExpiredIn(k) ==
    \E e \in Entries(cache) : e.key = k /\ now - e.timestamp > e.ttl

\* C28: while the cache is alive (its timer armed), an entry that has become
\* expired eventually leaves the store, whether or not its key is requested
\* again.
C28_ExpiredEventuallyRemoved ==
    \A k \in CacheKeys : (cleanupInterval /\ ExpiredIn(k)) ~> ~ExpiredIn(k)

\* C28 witness: the sweep of a live cache has just removed entries, while the
\* last request for any key lies before it.
C28_Witness ==
    /\ cleanupInterval
    /\ Len(opLog) = 1
    /\ opLog[1].op = "cleanup"
    /\ opLog[1].size > Len(cache)
    /\ \A k \in CacheKeys : ~ExpiredIn(k)

(***************************************************************************)
(* Claims about requests (checked under Spec).                             *)
(***************************************************************************)
Done(r) == req[r].pc = "done"
\* The request made an upstream call and that call has settled.
Settled(r) == Done(r) /\ req[r].up # NoOutcome
LookupRoute(r) == req[r].route \in {"details", "nutrition"}
LastCompleted == completed[Len(completed)]

\* The request wrote the cache entry of key k.
Wrote(r, k) ==
    /\ Done(r)
    /\ req[r].writes > 0
    /\ \/ req[r].route \in {"search", "details"} /\ k = req[r].key
       \/ /\ req[r].route = "nutrition"
          /\ \/ k = FoodKey(req[r].fdcId) /\ req[r].calls = 1
             \/ k = req[r].key /\ req[r].resp.success

\* The value the request stored under k.
ValueWritten(r, k) ==
    IF req[r].route = "nutrition" /\ k = FoodKey(req[r].fdcId)
    THEN req[r].up.body
    ELSE req[r].resp.data

\* The TTL the route writes with.
WrittenTTL(r) == IF req[r].route = "search" THEN searchTTL ELSE detailTTL


\* C2: two requests that miss on the same key each have their own upstream
\* call in flight (no single-flight de-duplication); once two requests that
\* both called the upstream have both written the key, the entry holds the
\* value and the timestamp written by the one that completed last, until it
\* expires.
C2_BothCallLastWriteWins ==
    /\ \A r1, r2 \in Requests :
          (r1 # r2 /\ req[r1].pc = "awaiting" /\ req[r2].pc = "awaiting"
                   /\ req[r1].key = req[r2].key)
              => req[r1].calls = 1 /\ req[r2].calls = 1
    /\ \A r1, r2 \in Requests :
          (/\ r1 # r2
           /\ Done(r1) /\ Done(r2)
           /\ req[r1].calls = 1 /\ req[r2].calls = 1
           /\ LastCompleted = r2)
              => \A k \in {req[r2].key, FoodKey(req[r2].fdcId)} :
                    (Wrote(r1, k) /\ Wrote(r2, k))
                        => IF Has(cache, k)
                           THEN /\ cache[IndexOf(cache, k)].data = ValueWritten(r2, k)
                                /\ cache[IndexOf(cache, k)].timestamp = req[r2].at
                           ELSE now - req[r2].at > WrittenTTL(r2)

\* C2 witness: two searches missed on the same key before either call had
\* settled (the second write came within the TTL of the first, so the second
\* request cannot have missed on an expired entry), the upstream gave them
\* different results at different times, and the entry is the later one's.
C2_Witness ==
    \E r1, r2 \in Requests :
        /\ r1 # r2
        /\ req[r1].route = "search" /\ req[r2].route = "search"
        /\ req[r1].key = req[r2].key
        /\ req[r1].calls = 1 /\ req[r2].calls = 1
        /\ Wrote(r1, req[r1].key) /\ Wrote(r2, req[r2].key)
        /\ completed = <<r1, r2>>
        /\ req[r1].resp.data # req[r2].resp.data
        /\ req[r1].at < req[r2].at
        /\ req[r2].at - req[r1].at <= searchTTL
        /\ Has(cache, req[r2].key)
        /\ cache[IndexOf(cache, req[r2].key)].data = req[r2].resp.data
        /\ cache[IndexOf(cache, req[r2].key)].timestamp = req[r2].at

\* C3: no request ever has more than one upstream call to its name, and a
\* request whose call failed (no response, timeout, error status, malformed
\* payload) is answered after exactly one call.
C3_AtMostOneUpstreamCall ==
    \A r \in Requests :
        /\ req[r].calls <= 1
        /\ (Settled(r) /\ ~req[r].resp.success) => req[r].calls = 1

\* C3 witness: one request was answered NETWORK_ERROR after a timeout and
\* another with the error of a 5xx status, each after a single call.
C3_Witness ==
    \E r1, r2 \in Requests :
        /\ Settled(r1) /\ Settled(r2)
        /\ req[r1].up = [status |-> 0, body |-> "ECONNABORTED"]
        /\ req[r1].resp.code = "NETWORK_ERROR"
        /\ req[r1].calls = 1
        /\ req[r2].up.status = 500
        /\ req[r2].resp.kind = "USDAAPIError"
        /\ req[r2].calls = 1

\* C4 (as claimed): a search whose upstream call returned zero foods is
\* answered with the NotFound failure: FoodNotFoundError, 404, FOOD_NOT_FOUND.
C4_ZeroFoodsIsNotFound ==
    \A r \in Requests :
        (/\ Settled(r)
         /\ req[r].route = "search"
         /\ req[r].up = [status |-> 200, body |-> "foods:empty"])
            => /\ req[r].resp.kind = "FoodNotFoundError"
               /\ req[r].resp.status = 404
               /\ req[r].resp.code = "FOOD_NOT_FOUND"

\* C5 (as claimed): a lookup by identifier that the upstream answered with
\* status 404 fails with FoodNotFoundError (404) and is never a success.
C5_Upstream404IsNotFound ==
    \A r \in Requests :
        (Settled(r) /\ LookupRoute(r) /\ req[r].up.status = 404)
            => /\ ~req[r].resp.success
               /\ req[r].resp.kind = "FoodNotFoundError"
               /\ req[r].resp.status = 404

\* The status an UpstreamError is surfaced with, as the claim gives it.
C6_Remapped(status) == IF status >= 500 THEN 503 ELSE status

\* C6 (as claimed): a request whose upstream call returned 401, 403, 429 or
\* a 5xx status fails with an UpstreamError that records that status and is
\* surfaced as 401, 403, 429 and 503 respectively.
C6_NonSuccessStatusRemapped ==
    \A r \in Requests :
        (Settled(r) /\ (req[r].up.status \in {401, 403, 429} \/ req[r].up.status >= 500))
            => /\ req[r].resp.kind = "USDAAPIError"
               /\ req[r].resp.usdaStatus = req[r].up.status
               /\ req[r].resp.status = C6_Remapped(req[r].up.status)

\* The upstream call failed: an error status, no response or timeout, an
\* unparseable payload, zero results.
C7_UpstreamFailed(up) ==
    \/ up.status = 0
    \/ up.status >= 400
    \/ up.body \in {"nonobject", "foods:empty"}

\* C7 (as claimed): every request whose upstream call failed is answered with
\* success:false, an error code and a non-2xx status.
C7_FailureNeverSuccess ==
    \A r \in Requests :
        (Settled(r) /\ C7_UpstreamFailed(req[r].up))
            => /\ ~req[r].resp.success
               /\ req[r].resp.code # ""
               /\ req[r].resp.status \notin 200..299

\* C14: a request whose upstream call got no response (connection refused,
\* DNS failure, timeout) is answered 502 NETWORK_ERROR, the error being a
\* NetworkError, after that one call and without a cache write.
C14_NoResponseIsNetworkError ==
    \A r \in Requests :
        (Settled(r) /\ req[r].up.status = 0)
            => /\ req[r].resp.kind = "NetworkError"
               /\ req[r].resp.status = 502
               /\ req[r].resp.code = "NETWORK_ERROR"
               /\ ~req[r].resp.success
               /\ req[r].calls = 1
               /\ req[r].writes = 0

\* C14 witness: a search that timed out and a nutrition lookup whose
\* connection was refused were both answered 502 NETWORK_ERROR.
C14_Witness ==
    \E r1, r2 \in Requests :
        /\ Settled(r1) /\ Settled(r2)
        /\ req[r1].route = "search"
        /\ req[r1].up.body = "ECONNABORTED"
        /\ req[r1].resp.status = 502
        /\ req[r1].resp.code = "NETWORK_ERROR"
        /\ req[r2].route = "nutrition"
        /\ req[r2].up.body = "ECONNREFUSED"
        /\ req[r2].resp.status = 502
        /\ req[r2].resp.code = "NETWORK_ERROR"

\* The upstream answered the nutrition request r with a record (an object
\* that getFoodDetails returns).
C15_RecordFetched(r) ==
    /\ Settled(r)
    /\ req[r].route = "nutrition"
    /\ req[r].up.status \in 1..499
    /\ req[r].up.body # "nonobject"

FreshEntry(c, k, t) ==
    \E i \in 1..Len(c) : c[i].key = k /\ t - c[i].timestamp <= c[i].ttl
FreshData(c, k, t) ==
    c[CHOOSE i \in 1..Len(c) : c[i].key = k /\ t - c[i].timestamp <= c[i].ttl].data

\* C23: a search, detail or nutrition request that finds a non-expired
\* entry for its key is answered with the value of that entry, makes no
\* upstream call and writes nothing to the cache; and a request makes its
\* upstream call only when its key had no such entry.
C23_HitShortCircuits ==
    [][\A r \in Requests :
          (req[r].pc = "idle" /\ req'[r].pc # "idle" /\ req'[r].key # "")
              => /\ FreshEntry(cache, req'[r].key, now)
                    => /\ req'[r].pc = "done"
                       /\ req'[r].resp.success
                       /\ req'[r].resp.data = FreshData(cache, req'[r].key, now)
                       /\ req'[r].calls = 0
                       /\ req'[r].writes = 0
                       /\ cache' = cache
                 /\ req'[r].calls > 0
                    => /\ ~FreshEntry(cache, req'[r].key, now)
                       /\ req'[r].route = "nutrition"
                            => ~FreshEntry(cache, FoodKey(req'[r].fdcId), now)]_vars

\* C23 witness: a request was answered from the entry another request wrote
\* after its upstream call, with no call and no write of its own.
C23_Witness ==
    \E r1, r2 \in Requests :
        /\ r1 # r2
        /\ Done(r1) /\ req[r1].calls = 1 /\ req[r1].writes > 0
        /\ Done(r2) /\ req[r2].key = req[r1].key
        /\ req[r2].calls = 0 /\ req[r2].reads = 1 /\ req[r2].writes = 0
        /\ req[r2].resp.success
        /\ req[r2].resp.data = req[r1].resp.data

\* C24: only successful upstream results are cached: a request whose
\* upstream call was answered with a 4xx or 5xx status, with no response or
\* with a payload that is no object has written nothing to the cache.
C24_OnlySuccessCached ==
    \A r \in Requests :
        (/\ Settled(r)
         /\ \/ req[r].up.status = 0
            \/ req[r].up.status >= 400
            \/ req[r].up.body = "nonobject")
            => req[r].writes = 0

\* A page parameter of the query string that is left out or an integer.
C16_IntegerOrOmitted(text) ==
    text = Absent \/ ParseInt(text[1]) # << >>

C8_SearchRejected(q) ==
    LET type == sanitizeInput(q.type)
    IN  \/ type = Absent
        \/ \A i \in 1..Len(type[1]) : IsSpace(type[1][i])
        \/ Len(type[1]) > MaxTypeLength
        \/ \E i \in 1..Len(type[1]) : ~ValidFoodTypeChar(type[1][i])
        \/ /\ q.pageSize # Absent
           /\ \/ ParseInt(q.pageSize[1]) = << >>
              \/ ParseInt(q.pageSize[1])[1] \notin 1..200
        \/ /\ q.pageNumber # Absent
           /\ \/ ParseInt(q.pageNumber[1]) = << >>
              \/ ParseInt(q.pageNumber[1])[1] < 1

\* The identifier is not a number or not a positive one.
C8_FdcIdRejected(text) ==
    \/ ParseInt(text) = << >>
    \/ ParseInt(text)[1] <= 0

C8_FailsValidation(r) ==
    \/ req[r].route = "search" /\ C8_SearchRejected(req[r].search)
    \/ LookupRoute(r) /\ C8_FdcIdRejected(req[r].fdcIdText)

AnsweredStep(r) == req[r].pc # "done" /\ req'[r].pc = "done"

\* The values the clock can show.
ClockValues == {k * searchTTL + j : k \in 0..MaxTicks, j \in 0..MaxTicks}

\* C29: every summary getFoodNutrition returns is derived from an upstream
\* record fetched at most detailTTL (10 minutes) before the response,
\* however detail requests, nutrition requests and time advance interleave.
C29_SummaryAtMostTenMinutesOld ==
    [][\A r \in DOMAIN req :
          (AnsweredStep(r) /\ req'[r].route = "nutrition" /\ req'[r].resp.success)
              => \E t \in ClockValues :
                    /\ t <= now
                    /\ now - t <= detailTTL
                    /\ req'[r].resp.data = getDetailedNutrition(RecordAt(t))]_vars

(***************************************************************************)
(* SpecFunctions: the pure functions, each applied to inputs drawn from    *)
(* bounded sets; `call` holds the last call with its result.               *)
(***************************************************************************)
\* Injective sequences over S of length at most n.
RECURSIVE Arrangements(_, _)
Arrangements(S, n) ==
    IF n = 0 THEN {<< >>}
    ELSE LET shorter == Arrangements(S, n - 1)
         IN  shorter \cup UNION {{Append(a, x) : x \in S \ Range(a)} : a \in shorter}

\* How many own properties a parameter object of the model has at most.
MaxParams == 3

\* Property names: those of the service, a prefix of one of them, and an
\* upper-case one (code units below the lower-case letters).
ParamNames == {N_type, N_pageSize, N_pageNumber, N_fdcId, <<"p","a","g","e">>, <<"Z">>}

\* JSON.stringify of the value of a property, by variant.
ParamValue(name, variant) ==
    IF name = N_type THEN JsonString(IF variant = 1 THEN <<"a","p">> ELSE <<"a"," ","b">>)
    ELSE JsonNumber(IF variant = 1 THEN 1 ELSE 10)

\* Parameter objects: names in insertion order, each with a value.
ParamObjects ==
    UNION {{[i \in 1..Len(names) |-> <<names[i], ParamValue(names[i], variants[i])>>] :
                variants \in [1..Len(names) -> {1, 2}]} :
           names \in Arrangements(ParamNames, MaxParams)}

KeyPrefixes == {"search", "food"}

InitFunctions ==
    /\ now = 0
    /\ ticks = 0
    /\ cache = << >>
    /\ cleanupInterval = FALSE
    /\ opLog = << >>
    /\ req = << >>
    /\ completed = << >>
    /\ FunctionsAtRest
    /\ InstancesAtRest

RestOfFunctions ==
    UNCHANGED <<now, ticks, cache, cleanupInterval, opLog, req, completed,
                instance, stores, services>>

\* The caller has taken the result; the next call can be made.
ReturnFromCall ==
    /\ call # NoCall
    /\ call' = NoCall
    /\ RestOfFunctions

\* CacheService.generateKey(prefix, params)
GenerateKeyCall(prefix, params) ==
    /\ call = NoCall
    /\ call' = [fn |-> "generateKey", prefix |-> prefix, params |-> params,
                result |-> generateKey(prefix, params)]
    /\ RestOfFunctions

\* ---------------------------------------------------------------------
\* NutritionExtractor (src/src/middleware/validation.ts)
\*
\* Numbers are counted in thousandths (52 is 52000, 0.004 is 4), so that
\* rounding to two decimals is something that happens.  JavaScript values
\* that can be a number, a string, null or undefined are records of one
\* shape.
\* ---------------------------------------------------------------------

Thousandths(whole) == whole * 1000

Num(n) == [t |-> "number", n |-> n, s |-> << >>]
Str(s) == [t |-> "string", n |-> 0, s |-> s]
NullValue == [t |-> "null", n |-> 0, s |-> << >>]
UndefinedValue == [t |-> "undefined", n |-> 0, s |-> << >>]

\* !value
Falsy(v) ==
    \/ v.t \in {"null", "undefined"}
    \/ v.t = "number" /\ v.n = 0
    \/ v.t = "string" /\ v.s = << >>

\* private static readonly NUTRIENT_IDS (the six that are read)
NUTRIENT_IDS ==
    [CALORIES |-> 1008, PROTEIN |-> 1003, CARBOHYDRATES |-> 1005,
     FAT |-> 1004, FIBER |-> 1079, SUGAR |-> 2000]

\* The decimal digits of a natural number.
RECURSIVE DecimalDigits(_)
DecimalDigits(n) ==
    IF n < 10 THEN <<Digits[n + 1]>>
    ELSE DecimalDigits(n \div 10) \o <<Digits[(n % 10) + 1]>>

\* Number.prototype.toString of a number of thousandths.
NumberToString(n) ==
    LET abs == IF n < 0 THEN -n ELSE n
        frac == abs % 1000
        three == <<Digits[(frac \div 100) + 1], Digits[((frac \div 10) % 10) + 1],
                   Digits[(frac % 10) + 1]>>
        shown == IF frac % 10 # 0 THEN three
                 ELSE IF frac % 100 # 0 THEN SubSeq(three, 1, 2)
                 ELSE SubSeq(three, 1, 1)
    IN  (IF n < 0 THEN <<"-">> ELSE << >>)
        \o DecimalDigits(abs \div 1000)
        \o (IF frac = 0 THEN << >> ELSE <<".">> \o shown)

\* value.toString()
ValueToString(v) ==
    IF v.t = "number" THEN NumberToString(v.n) ELSE v.s

\* The thousandths written by the digits after a decimal point (the texts
\* of the model have at most three of them).
FractionValue(ds) ==
    DecimalValue(SubSeq(ds \o <<"0", "0", "0">>, 1, 3))

\* The digits of the fraction that the text starts with, if it starts with one.
FractionDigits(after) ==
    IF after # << >> /\ Head(after) = "." THEN DigitPrefix(Tail(after)) ELSE << >>

\* The number written by the digits before and after the point; << >> is NaN.
DecimalNumber(whole, frac) ==
    IF whole = << >> /\ frac = << >> THEN << >>
    ELSE <<Thousandths(DecimalValue(whole)) + FractionValue(frac)>>

\* The number a text without a sign starts with.
ParseUnsigned(body) ==
    DecimalNumber(DigitPrefix(body),
                  FractionDigits(SubSeq(body, Len(DigitPrefix(body)) + 1, Len(body))))

Negated(number) == IF number = << >> THEN << >> ELSE <<-number[1]>>

\* The number a text without leading white space starts with.
ParseSigned(t) ==
    IF t # << >> /\ Head(t) = "-" THEN Negated(ParseUnsigned(Tail(t)))
    ELSE IF t # << >> /\ Head(t) = "+" THEN ParseUnsigned(Tail(t))
    ELSE ParseUnsigned(t)

\* parseFloat(s): leading white space skipped, an optional sign, digits with
\* an optional fraction, the rest ignored; << >> is NaN.  (No text of the
\* model has an exponent or spells Infinity.)
ParseFloat(s) == ParseSigned(TrimStart(s))

\* Math.round(x * 100) / 100 of a non-negative number (no number of the
\* model lies half-way between two hundredths).
Round2(x) == ((x + 5) \div 10) * 10

\* An element of food.foodNutrients; a null element has isNull.
Nutrient(nutrientId, value) ==
    [isNull |-> FALSE, nutrientId |-> nutrientId, value |-> value]
NullNutrient == [isNull |-> TRUE, nutrientId |-> 0, value |-> UndefinedValue]

\* An element of food.foodPortions; measureUnit is << >> when missing.
MeasureUnit(abbreviation, name) == <<[abbreviation |-> abbreviation, name |-> name]>>
Portion(amount, measureUnit) ==
    [isNull |-> FALSE, amount |-> amount, measureUnit |-> measureUnit]
NullPortion == [isNull |-> TRUE, amount |-> UndefinedValue, measureUnit |-> << >>]

\* USDAFood as the upstream sends it; foodPortions and foodNutrients are
\* << >> when missing and <<list>> otherwise.
Food(fdcId, description, brandOwner, foodPortions, foodNutrients) ==
    [isNull |-> FALSE, fdcId |-> fdcId, description |-> description,
     brandOwner |-> brandOwner, foodPortions |-> foodPortions,
     foodNutrients |-> foodNutrients]
NullFood ==
    [isNull |-> TRUE, fdcId |-> 0, description |-> UndefinedValue,
     brandOwner |-> UndefinedValue, foodPortions |-> << >>, foodNutrients |-> << >>]

\* The value of a step that may throw.
Value(v) == [thrown |-> FALSE, value |-> v]
Throws(v) == [thrown |-> TRUE, value |-> v]

\* Array.prototype.find(n => n.nutrientId === nutrientId): the index of the
\* first match, 0 for none, -1 when a null element is read before a match.
RECURSIVE FindNutrient(_, _, _)
FindNutrient(list, nutrientId, i) ==
    IF i > Len(list) THEN 0
    ELSE IF list[i].isNull THEN -1
    ELSE IF list[i].nutrientId = nutrientId THEN i
    ELSE FindNutrient(list, nutrientId, i + 1)

\* Mutant: a value that parses is returned whatever its sign.
NonNegativeOrZeroAnySign(value) == IF value = << >> THEN 0 ELSE value[1]

\* isNaN(value) || value < 0 ? 0 : value
NonNegativeOrZero(value) ==
    IF value = << >> \/ value[1] < 0 THEN 0 ELSE value[1]

\* extractNutrientValue after the find: nutrient is list[at].
NutrientValueAt(list, at) ==
    IF at = -1 THEN Throws(0)
    ELSE IF at = 0 \/ list[at].value.t \in {"undefined", "null"} THEN Value(0)
    ELSE Value(NonNegativeOrZero(ParseFloat(ValueToString(list[at].value))))

\* extractNutrientValue(food, nutrientId)
extractNutrientValue(food, nutrientId) ==
    IF food.foodNutrients = << >> \/ food.foodNutrients[1] = << >> THEN Value(0)
    ELSE NutrientValueAt(food.foodNutrients[1],
                         FindNutrient(food.foodNutrients[1], nutrientId, 1))

\* The return value of extractMacronutrients; fiber and sugar are << >> when
\* undefined.
Macronutrients(protein, carbohydrates, fat, fiber, sugar) ==
    [thrown |-> protein.thrown \/ carbohydrates.thrown \/ fat.thrown \/ fiber.thrown
                \/ sugar.thrown,
     value |-> [protein |-> Round2(protein.value),
                carbohydrates |-> Round2(carbohydrates.value),
                fat |-> Round2(fat.value),
                fiber |-> IF fiber.value > 0 THEN <<Round2(fiber.value)>> ELSE << >>,
                sugar |-> IF sugar.value > 0 THEN <<Round2(sugar.value)>> ELSE << >>]]

\* extractMacronutrients(food)
extractMacronutrients(food) ==
    Macronutrients(extractNutrientValue(food, NUTRIENT_IDS.PROTEIN),
                   extractNutrientValue(food, NUTRIENT_IDS.CARBOHYDRATES),
                   extractNutrientValue(food, NUTRIENT_IDS.FAT),
                   extractNutrientValue(food, NUTRIENT_IDS.FIBER),
                   extractNutrientValue(food, NUTRIENT_IDS.SUGAR))

\* .substring(0, 200) of cleanDescription and the length < 50 of extractBrandName
MaxDescriptionLength == 200
MaxBrandLength == 50

UnknownFood == <<"U","n","k","n","o","w","n"," ","F","o","o","d">>

\* .replace(/\s+/g, ' ')
RECURSIVE CollapseSpaces(_)
CollapseSpaces(s) ==
    IF s = << >> THEN << >>
    ELSE IF IsSpace(Head(s)) THEN <<" ">> \o CollapseSpaces(TrimStart(s))
    ELSE <<Head(s)>> \o CollapseSpaces(Tail(s))

\* [\w\s\-.,&()]
DescriptionChar(ch) ==
    \/ ch \in Range(UpperCase) \cup Range(LowerCase) \cup Range(Digits) \cup {"_"}
    \/ IsSpace(ch)
    \/ ch \in {"-", ".", ",", "&", "(", ")"}

\* cleanDescription(description); a description that is not a string has
\* no trim and throws.
cleanDescription(description) ==
    IF Falsy(description) THEN Value(UnknownFood)
    ELSE IF description.t # "string" THEN Throws(<< >>)
    ELSE Value(Substring0(SelectSeq(CollapseSpaces(Trim(description.s)), DescriptionChar),
                          MaxDescriptionLength))

\* extractBrandName(food): brandOwner trimmed, or what the description has
\* before its first comma (/^([^,]+),/); << >> is undefined.
extractBrandName(food) ==
    IF ~Falsy(food.brandOwner)
    THEN IF food.brandOwner.t = "string" THEN Value(<<Trim(food.brandOwner.s)>>)
         ELSE Throws(<< >>)
    ELSE IF Falsy(food.description) THEN Value(<< >>)
    ELSE IF food.description.t # "string" THEN Throws(<< >>)
    ELSE LET description == food.description.s
             commas == {i \in 1..Len(description) : description[i] = ","}
             first == CHOOSE i \in commas : \A j \in commas : i <= j
         IN  IF commas # {} /\ first > 1 /\ first - 1 < MaxBrandLength
             THEN Value(<<Trim(SubSeq(description, 1, first - 1))>>)
             ELSE Value(<< >>)

\* String.prototype.toLowerCase, one character
ToLowerCase(ch) ==
    IF ch \in Range(UpperCase) THEN LowerCase[PosIn(UpperCase, ch)] ELSE ch

\* The unit alternatives of the serving pattern, in the order of the pattern,
\* and unitMap of normalizeUnit in the same order.
UnitAlternatives ==
    << <<"g">>, <<"g","r","a","m">>, <<"g","r","a","m","s">>,
       <<"o","z">>, <<"o","u","n","c","e">>, <<"o","u","n","c","e","s">>,
       <<"m","l">>, <<"m","i","l","l","i","l","i","t","e","r">>,
       <<"m","i","l","l","i","l","i","t","e","r","s">>,
       <<"c","u","p">>, <<"c","u","p","s">>,
       <<"t","b","s","p">>, <<"t","a","b","l","e","s","p","o","o","n">>,
       <<"t","a","b","l","e","s","p","o","o","n","s">>,
       <<"t","s","p">>, <<"t","e","a","s","p","o","o","n">>,
       <<"t","e","a","s","p","o","o","n","s">> >>
unitMap ==
    <<"g", "g", "g", "oz", "oz", "oz", "ml", "ml", "ml", "cup", "cup",
      "tbsp", "tbsp", "tbsp", "tsp", "tsp", "tsp">>

\* normalizeUnit(unit): unitMap[unit.toLowerCase()] || unit
normalizeUnit(unit) ==
    LET lower == [i \in 1..Len(unit) |-> ToLowerCase(unit[i])]
        known == {k \in DOMAIN UnitAlternatives : UnitAlternatives[k] = lower}
    IN  IF known = {} THEN JoinChars(unit) ELSE unitMap[CHOOSE k \in known : TRUE]

\* The last index of the run of digits that starts at i.
RECURSIVE DigitsEnd(_, _)
DigitsEnd(s, i) ==
    IF i < Len(s) /\ IsDigit(s[i + 1]) THEN DigitsEnd(s, i + 1) ELSE i

\* The first index from i on that holds no white space.
RECURSIVE SpacesEnd(_, _)
SpacesEnd(s, i) ==
    IF i <= Len(s) /\ IsSpace(s[i]) THEN SpacesEnd(s, i + 1) ELSE i

\* The first unit alternative that the text continues with at j, whatever
\* its case; 0 for none.
UnitAt(s, j) ==
    LET fits == {k \in DOMAIN UnitAlternatives :
                   /\ j + Len(UnitAlternatives[k]) - 1 <= Len(s)
                   /\ \A c \in 1..Len(UnitAlternatives[k]) :
                         ToLowerCase(s[j + c - 1]) = UnitAlternatives[k][c]}
    IN  IF fits = {} THEN 0 ELSE CHOOSE k \in fits : \A l \in fits : k <= l

\* /(\d+(?:\.\d+)?)\s*(g|gram|...)/i tried at the digit s[i]: the number and
\* the unit it captures, << >> for no match.  A shorter run of digits, the
\* fraction left out or less white space would put a digit, a point or white
\* space where the unit has to start, so the longest of each is the only try.
MatchAt(s, i) ==
    LET wholeEnd == DigitsEnd(s, i)
        fraction == wholeEnd + 2 <= Len(s) /\ s[wholeEnd + 1] = "."
                    /\ IsDigit(s[wholeEnd + 2])
        numberEnd == IF fraction THEN DigitsEnd(s, wholeEnd + 2) ELSE wholeEnd
        j == SpacesEnd(s, numberEnd + 1)
        k == UnitAt(s, j)
    IN  IF k = 0 THEN << >>
        ELSE <<[amount |-> SubSeq(s, i, numberEnd),
                unit |-> SubSeq(s, j, j + Len(UnitAlternatives[k]) - 1)]>>

\* description.match(...) of extractServingSize: the leftmost match.
servingMatch(description) ==
    LET starts == {i \in 1..Len(description) :
                     IsDigit(description[i]) /\ MatchAt(description, i) # << >>}
    IN  IF starts = {} THEN << >>
        ELSE MatchAt(description, CHOOSE i \in starts : \A j \in starts : i <= j)

\* let amount = 100; let unit = 'g'
DefaultServingSize == [amount |-> Thousandths(100), unit |-> "g"]

\* The first portion of the record can be read and has an amount and a
\* measure unit.
PortionUsable(portions) ==
    /\ portions # << >>
    /\ ~portions[1].isNull
    /\ ~Falsy(portions[1].amount)
    /\ portions[1].measureUnit # << >>

\* measureUnit.abbreviation || measureUnit.name || 'g'
UnitOf(measureUnit) ==
    IF measureUnit.abbreviation # "" THEN measureUnit.abbreviation
    ELSE IF measureUnit.name # "" THEN measureUnit.name
    ELSE "g"

\* extractServingSize with food.foodPortions || [] and the match in the
\* description at hand: the default, then the first portion when it has an
\* amount and a measure unit, then the match.  (The portion amounts of the
\* model are numbers, null or undefined.)
ServingSize(portions, match) ==
    IF portions # << >> /\ portions[1].isNull THEN Throws(DefaultServingSize)
    ELSE IF match # << >>
    THEN Value([amount |-> ParseFloat(match[1].amount)[1],
                unit |-> normalizeUnit(match[1].unit)])
    ELSE IF PortionUsable(portions)
    THEN Value([amount |-> portions[1].amount.n,
                unit |-> UnitOf(portions[1].measureUnit[1])])
    ELSE Value(DefaultServingSize)

\* extractServingSize(food); a description that is not a string has no match
\* and throws.
extractServingSize(food) ==
    IF ~Falsy(food.description) /\ food.description.t # "string"
    THEN Throws(DefaultServingSize)
    ELSE ServingSize(IF food.foodPortions = << >> THEN << >> ELSE food.foodPortions[1],
                     servingMatch(IF Falsy(food.description) THEN << >>
                                  ELSE food.description.s))

\* The object extractSingleFoodNutrition returns, and null when a step has
\* thrown.  (dataType and publishedDate are copied as they are and left out.)
Summary(food, description, brandName, servingSize, macronutrients, calories) ==
    IF description.thrown \/ brandName.thrown \/ servingSize.thrown
       \/ macronutrients.thrown \/ calories.thrown
    THEN [outcome |-> "null", summary |-> << >>]
    ELSE [outcome |-> "summary",
          summary |-> <<[fdcId |-> food.fdcId,
                         description |-> description.value,
                         brandName |-> brandName.value,
                         servingSize |-> servingSize.value,
                         calories |-> calories.value,
                         macronutrients |-> macronutrients.value]>>]

\* extractSingleFoodNutrition(food): the summary, null when a step throws,
\* and a TypeError of its own when food is null or undefined, for the catch
\* block reads food.fdcId.
extractSingleFoodNutrition(food) ==
    IF food.isNull THEN [outcome |-> "throws", summary |-> << >>]
    ELSE Summary(food, cleanDescription(food.description), extractBrandName(food),
                 extractServingSize(food), extractMacronutrients(food),
                 extractNutrientValue(food, NUTRIENT_IDS.CALORIES))

\* .filter(food => food !== null) over what the map returned; the catch
\* block of the map reads food.fdcId as well, so the TypeError of a null
\* element leaves extractNutritionData.
FilterExtracted(each) ==
    IF \E i \in 1..Len(each) : each[i].outcome = "throws" THEN Throws(<< >>)
    ELSE Value([i \in 1..Len(SelectSeq(each, LAMBDA r : r.outcome = "summary")) |->
                   SelectSeq(each, LAMBDA r : r.outcome = "summary")[i].summary[1]])

\* const extractedFoods = usdaResponse.foods.map(...).filter(...) of
\* extractNutritionData, with the early return for no foods; foods is << >>
\* when missing.
extractedFoods(foods) ==
    IF foods = << >> \/ foods[1] = << >> THEN Value(<< >>)
    ELSE FilterExtracted([i \in 1..Len(foods[1]) |->
                             extractSingleFoodNutrition(foods[1][i])])

\* ---------------------------------------------------------------------
\* The records the extractor is called with
\* ---------------------------------------------------------------------

\* The longest foodNutrients list built from NutrientEntries, and the
\* longest foods list of a batch.
MaxNutrients == 2
MaxBatch == 3

\* food.foodNutrients[i].value: numbers (-52, 0, 0.004, 1.236, 52), texts
\* ("abc", "-2", "2.5", "7x"), null and undefined.
NutrientValues ==
    {Num(Thousandths(-52)), Num(0), Num(4), Num(1236), Num(Thousandths(52)),
     Str(<<"a","b","c">>), Str(<<"-","2">>), Str(<<"2",".","5">>), Str(<<"7","x">>),
     NullValue, UndefinedValue}

NutrientEntries ==
    {Nutrient(id, v) : id \in {NUTRIENT_IDS.CALORIES, NUTRIENT_IDS.PROTEIN,
                               NUTRIENT_IDS.FIBER},
                       v \in NutrientValues}
      \cup {NullNutrient}

\* Every list of at most n elements of S.
RECURSIVE Lists(_, _)
Lists(S, n) ==
    IF n = 0 THEN {<< >>}
    ELSE LET shorter == Lists(S, n - 1)
         IN  shorter \cup {Append(l, x) : l \in shorter, x \in S}

\* A record with all six nutrients, and one where none of the six is usable.
AppleNutrients ==
    <<Nutrient(NUTRIENT_IDS.CALORIES, Num(Thousandths(52))),
      Nutrient(NUTRIENT_IDS.PROTEIN, Num(260)),
      Nutrient(NUTRIENT_IDS.CARBOHYDRATES, Num(13812)),
      Nutrient(NUTRIENT_IDS.FAT, Num(170)),
      Nutrient(NUTRIENT_IDS.FIBER, Num(2400)),
      Nutrient(NUTRIENT_IDS.SUGAR, Num(10394))>>
UnusableNutrients ==
    <<Nutrient(NUTRIENT_IDS.CALORIES, Num(Thousandths(-52))),
      Nutrient(NUTRIENT_IDS.PROTEIN, Str(<<"a","b","c">>)),
      Nutrient(NUTRIENT_IDS.CARBOHYDRATES, NullValue),
      Nutrient(NUTRIENT_IDS.FAT, UndefinedValue),
      Nutrient(NUTRIENT_IDS.FIBER, Str(<<"-","2">>))>>

\* food.foodNutrients: missing, or a list.
NutrientLists ==
    {<< >>} \cup {<<l>> : l \in Lists(NutrientEntries, MaxNutrients)
                              \cup {AppleNutrients, UnusableNutrients}}

\* food.description: "Apple", "Milk, 250 ml", "5 Greens", "1.5oz", " ",
\* "##", missing, and a number where a string is expected.
AppleDescription == Str(<<"A","p","p","l","e">>)
MilkDescription == Str(<<"M","i","l","k",","," ","2","5","0"," ","m","l">>)
Descriptions ==
    {AppleDescription, MilkDescription,
     Str(<<"5"," ","G","r","e","e","n","s">>), Str(<<"1",".","5","o","z">>),
     Str(<<" ">>), Str(<<"#","#">>), UndefinedValue, Num(Thousandths(5))}

\* food.foodPortions: missing, empty, or a list whose first element is
\* 2 cups, -5 of a unit with a name only, a unit without an amount, an
\* amount without a unit, or null.
CupPortion == Portion(Num(Thousandths(2)), MeasureUnit("cup", "cup"))
PortionLists ==
    {<< >>, << << >> >>,
     << <<CupPortion>> >>,
     << <<Portion(Num(Thousandths(-5)), MeasureUnit("", "slice")), CupPortion>> >>,
     << <<Portion(UndefinedValue, MeasureUnit("g", "gram")), CupPortion>> >>,
     << <<Portion(Num(Thousandths(1)), << >>)>> >>,
     << <<NullPortion>> >>}

BrandOwners == {UndefinedValue, Str(<<"A","c","m","e"," ">>)}

\* USDAFood: every description with every portion list and brand owner, and
\* every nutrient list.
Foods ==
    {Food(1, d, b, p, <<AppleNutrients>>) :
        d \in Descriptions, b \in BrandOwners, p \in PortionLists}
      \cup {Food(2, AppleDescription, UndefinedValue, << >>, ns) : ns \in NutrientLists}

\* The elements of usdaResponse.foods: two records that extract, one whose
\* description is not a string, one with a null in its nutrient list, and null.
BatchFoods ==
    {Food(1, AppleDescription, UndefinedValue, << >>, <<AppleNutrients>>),
     Food(2, MilkDescription, UndefinedValue, << >>, << >>),
     Food(3, Num(Thousandths(5)), UndefinedValue, << >>, <<AppleNutrients>>),
     Food(4, AppleDescription, UndefinedValue, << >>, << <<NullNutrient>> >>),
     NullFood}

\* usdaResponse.foods: missing, or a list.
FoodLists == {<< >>} \cup {<<l>> : l \in Lists(BatchFoods, MaxBatch)}

\* NutritionExtractor.getDetailedNutrition(food)
GetDetailedNutritionCall(food) ==
    /\ call = NoCall
    /\ call' = [fn |-> "getDetailedNutrition", food |-> food,
                result |-> extractSingleFoodNutrition(food)]
    /\ RestOfFunctions

\* NutritionExtractor.extractNutritionData(usdaResponse, searchQuery)
ExtractNutritionDataCall(foods) ==
    /\ call = NoCall
    /\ call' = [fn |-> "extractNutritionData", foods |-> foods,
                result |-> extractedFoods(foods)]
    /\ RestOfFunctions

\* const { type, pageSize = 25, pageNumber = 1 } = params
DefaultPageSize == 25
DefaultPageNumber == 1
\* Limit between 1-200
MinPageSize == 1
MaxPageSize == 200
MinPageNumber == 1

\* Math.min(Math.max(pageSize, 1), 200)
UpstreamPageSize(pageSize) == Min(Max(pageSize, MinPageSize), MaxPageSize)

\* Math.max(pageNumber, 1)
UpstreamPageNumber(pageNumber) == Max(pageNumber, MinPageNumber)

\* searchFoodsRaw up to the upstream call: the guard on type, then the
\* searchParams object; an omitted pageSize or pageNumber takes its default.
searchParams(type, pageSize, pageNumber) ==
    IF TypeMissing(type)
    THEN [thrown |-> TRUE, query |-> << >>, pageSize |-> 0, pageNumber |-> 0]
    ELSE [thrown |-> FALSE,
          query |-> Trim(type[1]),
          pageSize |-> UpstreamPageSize(IF pageSize = << >> THEN DefaultPageSize
                                        ELSE pageSize[1]),
          pageNumber |-> UpstreamPageNumber(IF pageNumber = << >> THEN DefaultPageNumber
                                            ELSE pageNumber[1])]

\* How far beyond the limits of a page parameter the inputs of the model go.
MaxBeyond == 2

\* SearchParams.pageSize and .pageNumber: omitted, or an integer around a limit.
PageSizeArguments ==
    {<< >>} \cup {<<n>> : n \in (MinPageSize - MaxBeyond - 1)..(MinPageSize + MaxBeyond)}
            \cup {<<n>> : n \in (MaxPageSize - MaxBeyond)..(MaxPageSize + MaxBeyond)}
PageNumberArguments ==
    {<< >>} \cup {<<n>> : n \in (MinPageNumber - MaxBeyond - 1)..(MinPageNumber + MaxBeyond)}

\* SearchParams.type
TypeArguments == {Text(<<"a","p">>), Text(<<" ","a","p">>), Text(<<" ">>), Absent}

\* USDAService.searchFoodsRaw(params) up to the upstream call.
SearchParamsCall(type, pageSize, pageNumber) ==
    /\ call = NoCall
    /\ call' = [fn |-> "searchParams", type |-> type, pageSize |-> pageSize,
                pageNumber |-> pageNumber,
                result |-> searchParams(type, pageSize, pageNumber)]
    /\ RestOfFunctions

NextFunctions ==
    \/ \E prefix \in KeyPrefixes, params \in ParamObjects : GenerateKeyCall(prefix, params)
    \/ \E type \in TypeArguments, pageSize \in PageSizeArguments,
           pageNumber \in PageNumberArguments : SearchParamsCall(type, pageSize, pageNumber)
    \/ \E food \in Foods : GetDetailedNutritionCall(food)
    \/ \E foods \in FoodLists : ExtractNutritionDataCall(foods)
    \/ ReturnFromCall

SpecFunctions == InitFunctions /\ [][NextFunctions]_vars

(***************************************************************************)
(* Claims about the cache key of a search (checked under Spec).            *)
(***************************************************************************)
\* The query searchFoodsRaw sends upstream for the query string q.
UpstreamQuery(q) ==
    searchParams(sanitizeInput(q.type), ParamOrDefault(q.pageSize, DefaultPageSize),
                 ParamOrDefault(q.pageNumber, DefaultPageNumber))

\* Request r1 is a search whose result is still in the cache.
SearchStillCached(r1) ==
    /\ req[r1].pc = "done"
    /\ req[r1].route = "search"
    /\ req[r1].writes = 1
    /\ FreshEntry(cache, req[r1].key, now)

\* C30: a search that arrives while the result of an earlier search with the
\* same upstream query (trimmed term, clamped pageSize and pageNumber) is
\* within its TTL uses the same cache key and is served from the cache,
\* without a second upstream call.
C30_SameQuerySameKey ==
    [][\A r1, r2 \in Requests :
          (/\ SearchStillCached(r1)
           /\ req[r2].pc = "idle" /\ req'[r2].pc # "idle"
           /\ req'[r2].route = "search" /\ req'[r2].key # ""
           /\ UpstreamQuery(req'[r2].search) = UpstreamQuery(req[r1].search))
              => /\ req'[r2].key = req[r1].key
                 /\ req'[r2].calls = 0]_vars

(***************************************************************************)
(* Claims about the pure functions (checked under SpecFunctions).          *)
(***************************************************************************)
\* USDAService.searchFoodsRaw on its own clamps: for every integer pageSize
\* and pageNumber it is called with (and a type that is not blank) it goes
\* on to the upstream call, and the query carries the pageSize brought into
\* 1..200 and the pageNumber raised to at least 1.
ServiceClampsPageParameters ==
    (/\ call.fn = "searchParams"
     /\ call.pageSize # << >>
     /\ call.pageNumber # << >>
     /\ call.type \in {Text(<<"a","p">>), Text(<<" ","a","p">>)})
        => /\ ~call.result.thrown
           /\ call.result.pageSize =
                 (IF call.pageSize[1] < 1 THEN 1
                  ELSE IF call.pageSize[1] > 200 THEN 200
                  ELSE call.pageSize[1])
           /\ call.result.pageNumber =
                 (IF call.pageNumber[1] < 1 THEN 1 ELSE call.pageNumber[1])

\* searchFoodsRaw was called with pageSize 202 and pageNumber -2 and sent 200
\* and 1 to the upstream.
ServiceClampsWitness ==
    /\ call.fn = "searchParams"
    /\ call.pageSize = <<202>>
    /\ call.pageNumber = <<-2>>
    /\ ~call.result.thrown
    /\ call.result.pageSize = 200
    /\ call.result.pageNumber = 1

\* The same properties in the insertion order given by the arrangement p.
Reordered(params, p) == [i \in 1..Len(params) |-> params[p[i]]]

\* C11: the key of a parameter object is the key of every re-ordering of
\* its properties: generateKey depends on the prefix and on the set of
\* name/value pairs only.
C11_KeyIgnoresInsertionOrder ==
    call.fn = "generateKey"
        => \A p \in Arrangements(1..Len(call.params), Len(call.params)) :
              Len(p) = Len(call.params)
                  => generateKey(call.prefix, Reordered(call.params, p)) = call.result

\* C11 witness: the object {type, pageSize, pageNumber}, inserted in an order
\* that is not the sorted one, got the key with the names sorted.
C11_Witness ==
    /\ call.fn = "generateKey"
    /\ call.prefix = "search"
    /\ call.params = << <<N_type, "\"ap\"">>, <<N_pageSize, "10">>, <<N_pageNumber, "1">> >>
    /\ call.result = "search:pageNumber=1&pageSize=10&type=\"ap\""

\* A summary came back from the extraction of one record.
Extracted ==
    call.fn = "getDetailedNutrition" /\ call.result.outcome = "summary"

\* The record has nothing usable for the nutrient: no list, no entry with
\* the id, or a first entry whose value is missing, null, below zero or a
\* text that is no number ("abc") or a number below zero ("-2").
C17_NothingUsable(food, nutrientId) ==
    \/ food.foodNutrients = << >>
    \/ LET list == food.foodNutrients[1]
           hits == {i \in 1..Len(list) : list[i].nutrientId = nutrientId}
           v == list[CHOOSE i \in hits : \A j \in hits : i <= j].value
       IN  \/ hits = {}
           \/ v.t \in {"null", "undefined"}
           \/ v.t = "number" /\ v.n < 0
           \/ v.t = "string" /\ v.s \in {<<"a","b","c">>, <<"-","2">>}

C18_AllNumbersNonNegative ==
    Extracted =>
        LET summary == call.result.summary[1]
            macro == summary.macronutrients
        IN  /\ summary.servingSize.amount >= 0
            /\ summary.calories >= 0
            /\ macro.protein >= 0
            /\ macro.carbohydrates >= 0
            /\ macro.fat >= 0
            /\ macro.fiber # << >> => macro.fiber[1] >= 0
            /\ macro.sugar # << >> => macro.sugar[1] >= 0

\* The first portion entry of the record can be used: it has an amount and
\* a measure unit.
C19_PortionAvailable(food) ==
    /\ food.foodPortions # << >>
    /\ food.foodPortions[1] # << >>
    /\ ~food.foodPortions[1][1].isNull
    /\ ~Falsy(food.foodPortions[1][1].amount)
    /\ food.foodPortions[1][1].measureUnit # << >>

\* C19: the serving size is the amount and unit of the first portion entry
\* when that entry can be used; only otherwise the number and unit matched
\* in the description; and 100 g only when there is neither.  A match in
\* the description never replaces an available portion entry.
C19_ServingSizeByPriority ==
    Extracted =>
        LET food == call.food
            servingSize == call.result.summary[1].servingSize
            portion == food.foodPortions[1][1]
            match == servingMatch(IF Falsy(food.description) THEN << >>
                                  ELSE food.description.s)
        IN  IF C19_PortionAvailable(food)
            THEN /\ servingSize.amount = portion.amount.n
                 /\ servingSize.unit =
                       (IF portion.measureUnit[1].abbreviation # ""
                        THEN portion.measureUnit[1].abbreviation
                        ELSE IF portion.measureUnit[1].name # ""
                        THEN portion.measureUnit[1].name
                        ELSE "g")
            ELSE IF match # << >>
            THEN /\ <<servingSize.amount>> = ParseFloat(match[1].amount)
                 /\ servingSize.unit = normalizeUnit(match[1].unit)
            ELSE servingSize = [amount |-> 100000, unit |-> "g"]

\* C20: batch extraction never raises, and its result is the summaries of
\* exactly the records whose own extraction succeeds, in the order of the
\* input: n records of which k fail give n - k summaries.
C20_BatchKeepsTheExtractable ==
    call.fn = "extractNutritionData" =>
        LET foods == IF call.foods = << >> THEN << >> ELSE call.foods[1]
            succeeds(food) == extractSingleFoodNutrition(food).outcome = "summary"
            extractable == SelectSeq(foods, succeeds)
        IN  /\ ~call.result.thrown
            /\ Len(call.result.value) = Len(extractable)
            /\ \A i \in 1..Len(extractable) :
                  call.result.value[i] = extractSingleFoodNutrition(extractable[i]).summary[1]

\* C21: protein, carbohydrate and fat are always in the macronutrient set
\* as multiples of 0.01; fiber and sugar are in it only when their value
\* rounded to two decimals is above zero, so no summary carries a fiber or
\* sugar of 0.
C21_FiberAndSugarOnlyWhenPositive ==
    Extracted =>
        LET macro == call.result.summary[1].macronutrients
        IN  /\ macro.protein % 10 = 0
            /\ macro.carbohydrates % 10 = 0
            /\ macro.fat % 10 = 0
            /\ macro.fiber # << >> => (macro.fiber[1] > 0 /\ macro.fiber[1] % 10 = 0)
            /\ macro.sugar # << >> => (macro.sugar[1] > 0 /\ macro.sugar[1] % 10 = 0)

\* C22: the cleaned description is never empty: a description of which
\* nothing is left is "Unknown Food"; any other has at most 200 characters,
\* all of them letters, digits, "_", white space or one of - . , & ( ).
C22_DescriptionNeverEmpty ==
    Extracted =>
        LET description == call.result.summary[1].description
        IN  /\ description # << >>
            /\ Len(description) <= 200
            /\ \A i \in 1..Len(description) :
                  \/ description[i] \in Range(UpperCase) \cup Range(LowerCase)
                                          \cup Range(Digits) \cup {"_", " ", "\t", "\n", "\r"}
                  \/ description[i] \in {"-", ".", ",", "&", "(", ")"}
            /\ Falsy(call.food.description) => description = UnknownFood

(***************************************************************************)
(* SpecInstances: CacheService.getInstance and the USDAService instances   *)
(* of one process.                                                         *)
(***************************************************************************)
\* How many USDAService instances one behaviour constructs.
MaxServices == 3

\* Mutant: getInstance constructs a CacheService on every call.
getInstanceAlwaysNew(inst, constructed) == constructed + 1

\* CacheService.getInstance: the store returned, as an index into the stores
\* constructed so far; constructed + 1 is a store made by this call.
getInstance(inst, constructed) == IF inst = 0 THEN constructed + 1 ELSE inst

\* new CacheService(): an empty Map and the sweep timer armed.
NewStore == [entries |-> << >>, timer |-> TRUE]

InitInstances ==
    /\ now = 0
    /\ ticks = 0
    /\ cache = << >>
    /\ cleanupInterval = FALSE
    /\ opLog = << >>
    /\ req = << >>
    /\ completed = << >>
    /\ FunctionsAtRest
    /\ InstancesAtRest

RestOfInstances == UNCHANGED <<now, ticks, cache, cleanupInterval, req, completed, call>>

\* new USDAService(apiKey): this.cache = CacheService.getInstance()
NewService(kind) ==
    LET store == getInstance(instance, Len(stores))
    IN  /\ instance' = store
        /\ stores' = IF store > Len(stores) THEN Append(stores, NewStore) ELSE stores
        /\ services' = Append(services, [kind |-> kind, cache |-> store])
        /\ UNCHANGED opLog
        /\ RestOfInstances

\* getServices() of the food routes: the service is made on the first request.
RouteServiceCreated ==
    /\ Len(services) < MaxServices
    /\ \A s \in 1..Len(services) : services[s].kind # "route"
    /\ NewService("route")

\* GET /health and GET /api/health: a service per request.
HealthServiceCreated ==
    /\ Len(services) < MaxServices
    /\ NewService("health")

\* this.cache.set(key, data) through service s.
ServiceSet(s, key, data) ==
    /\ s <= Len(services)
    /\ stores' = [stores EXCEPT ![services[s].cache].entries =
                      CacheSet(@, key, data, << >>, now)]
    /\ opLog' = <<[op |-> "set", service |-> s, key |-> key, data |-> data]>>
    /\ UNCHANGED <<instance, services>>
    /\ RestOfInstances

\* this.cache.get(key) through service s.
ServiceGet(s, key) ==
    LET entries == stores[services[s].cache].entries
        got == [op |-> "get", service |-> s, key |-> key,
                data |-> GetResult(entries, key, now)]
    IN  /\ s <= Len(services)
        /\ stores' = [stores EXCEPT ![services[s].cache].entries = GetStore(@, key, now)]
        /\ opLog' = IF opLog # << >> /\ opLog[Len(opLog)].op = "set"
                    THEN <<opLog[Len(opLog)], got>>
                    ELSE <<got>>
        /\ UNCHANGED <<instance, services>>
        /\ RestOfInstances

\* destroy() on shutdown: the timer is cleared and the Map emptied; the
\* static instance field is left as it is.
DestroyInstance ==
    /\ instance # 0
    /\ stores' = [stores EXCEPT ![instance] = [entries |-> << >>, timer |-> FALSE]]
    /\ opLog' = <<[op |-> "destroy", service |-> 0, key |-> Null, data |-> Null]>>
    /\ UNCHANGED <<instance, services>>
    /\ RestOfInstances

NextInstances ==
    \/ RouteServiceCreated
    \/ HealthServiceCreated
    \/ \E s \in 1..MaxServices, key \in CacheKeys, data \in CacheValues :
          ServiceSet(s, key, data)
    \/ \E s \in 1..MaxServices, key \in CacheKeys : ServiceGet(s, key)
    \/ DestroyInstance

SpecInstances == InitInstances /\ [][NextInstances]_vars

(***************************************************************************)
(* Claims about the instances (checked under SpecInstances).               *)
(***************************************************************************)
\* C13: however many services are constructed, one store exists at most,
\* every service holds that store, and a value set through one service is
\* what the get that follows returns through any other.
C13_OneStoreForAllServices ==
    /\ Len(stores) <= 1
    /\ \A s \in 1..Len(services) : services[s].cache = instance
    /\ (/\ Len(opLog) = 2
        /\ opLog[1].op = "set"
        /\ opLog[2].op = "get"
        /\ opLog[1].key = opLog[2].key)
           => opLog[2].data = opLog[1].data

\* C13 witness: the route service and two health-check services exist, and a
\* value set through a health-check service came back through the route one.
C13_Witness ==
    /\ Len(services) = 3
    /\ \E s1, s2 \in 1..Len(services) :
          /\ services[s1].kind = "health"
          /\ services[s2].kind = "route"
          /\ opLog = <<[op |-> "set", service |-> s1, key |-> "a", data |-> "v2"],
                       [op |-> "get", service |-> s2, key |-> "a", data |-> "v2"]>>

====
